---- MODULE Spec2Model ----
(***************************************************************************)
(* A model of the price tracker: the entity store and its price ledger     *)
(* (src/src/database.py, src/src/tracker.py), the background scraping job   *)
(* of the web front end with its cancel request (src/web_app.py), the bulk  *)
(* runner of the command line (src/bulk_scraper.py) and the rate limiter of *)
(* the UPC lookup (src/upc_price_lookup.py).                                *)
(*                                                                         *)
(* URLs are the numbers 1..NumUrls and prices are the numbers 0..MaxPrice.  *)
(* A fetch (ProductScraper.scrape_product) is external: it either returns   *)
(* a product with some price or returns None.  A call into the SQLite       *)
(* store or a write of the jobs file (save_jobs) may raise; the number of   *)
(* raises in one run is capped by MaxFaults.                                *)
(***************************************************************************)
EXTENDS Integers, Sequences, FiniteSets, TLC

\* ---------------------------------------------------------------- bounds
NumUrls == 2
MaxUrls == 2
MaxPrice == 1
MaxFaults == 1

URLS == 1..NumUrls
Prices == 0..MaxPrice

VARIABLES
    \* the entity store (one SQLite file)
    products,        \* table products: url -> [id, current_price]; id 0 = no row
    price_history,   \* table price_history, in rowid order
    now,             \* CURRENT_TIMESTAMP of the store, in seconds
    program,         \* the entry point that was launched: "web_app" or "bulk_scraper"
    \* web_app.py: one submitted job and its worker thread
    urls,            \* the job's ordered target list
    job,             \* jobs[job_id], the record observers read under jobs_lock
    pc,              \* position of the worker thread in scrape_job
    i,               \* loop index of scrape_job
    success_count,   \* local of scrape_job
    failed_count,    \* local of scrape_job
    errors,          \* local of scrape_job
    stats,           \* BulkScraper.stats
    config_source,   \* state of the site-override file config/sites.json
    delays,          \* number of time.sleep(delay) calls of the run
    calls,           \* number of scrape_bulk calls that have returned
    artifact,        \* whether downloads/<job_id>.csv exists
    \* what the run has done so far (history of the environment's choices)
    fetches,         \* number of fetches the worker has issued
    fetch_failed,    \* indices of the targets whose fetch returned None
    skips,           \* number of targets found already known
    faults,          \* number of raises of the store / the jobs file
    fault_at,        \* index of the first item during which a store raised, or 0
    response,        \* answer to the last cancel request
    cancel_accepted, \* whether a cancel request has taken effect
    \* main.py: the tracker commands on the entity store
    ops,             \* per url, the prices recorded by the completed add/update operations
    shown,           \* per url, the last history returned by get_price_history, oldest first
    \* upc_price_lookup.py: one UPCPriceLookup instance
    rate_limit,      \* UPCPriceLookup.rate_limit, calls per minute
    last_request_time, \* UPCPriceLookup.last_request_time
    current_time,    \* local of _rate_limit_delay
    sleep_until,     \* earliest time at which time.sleep returns
    rl_pc,           \* position inside _rate_limit_delay
    returns,         \* the times at which the calls of _rate_limit_delay returned
    \* src/src/scraper.py: one ProductScraper and one parsed page
    config,          \* ProductScraper.config: override key -> selector
    soup,            \* the parsed page, its elements in document order
    fn,              \* the extraction function applied last
    arg,             \* the text argument of the function applied last
    result,          \* what it returned, or that it raised
    site_table,      \* PriceTracker.site_configs: (site key, override) in iteration order
    \* web_app.py: the threads that touch the job map
    lock,            \* holder of jobs_lock, or "free"
    thread_pc,       \* per thread, its position relative to the job map
    jobs,            \* the job map: job id -> status, "absent" before submit
    stats_view,      \* the counts get_stats has read so far
    \* two workers on one store file, each with its own connection
    workers,         \* per worker: what it runs, its position and its locals
    creator          \* per url, the worker whose add_product inserted the row, or 0

dbvars == <<products, price_history, now>>
jobvars == <<program, urls, job, pc, i, success_count, failed_count, errors, stats,
             config_source, artifact, delays, calls>>
histvars == <<fetches, fetch_failed, skips, faults, fault_at, response, cancel_accepted>>
ledgervars == <<ops, shown>>
ratevars == <<rate_limit, last_request_time, current_time, sleep_until, rl_pc, returns>>
extractvars == <<config, soup, fn, arg, result, site_table>>
lockvars == <<lock, thread_pc, jobs, stats_view>>
concvars == <<workers, creator>>
clivars == <<ledgervars, ratevars, extractvars, lockvars, concvars>>
vars == <<dbvars, jobvars, histvars, clivars>>

\* ------------------------------------------ components that are not running
NumJobs == 2
JobIds == 1..NumJobs

\* the request handlers and the worker thread of web_app.py
Threads == {"scrape_job", "upload_file", "get_jobs", "get_job", "cancel_job",
            "download_csv", "get_stats"}

\* ProductScraper.__init__ without a page: no override, nothing applied
ExtractIdle ==
    /\ config = <<>> /\ soup = <<>> /\ fn = "none" /\ arg = <<>> /\ result = <<>>
    /\ site_table = <<>>

\* web_app.py, lines 36-38: jobs = {} and a free jobs_lock
LockIdle ==
    /\ lock = "free" /\ thread_pc = [t \in Threads |-> "idle"]
    /\ jobs = [j \in JobIds |-> "absent"] /\ stats_view = <<>>

\* the number of workers that share the store file
NumWorkers == 2
Workers == 1..NumWorkers

\* no worker has been started
ConcIdle ==
    workers = [w \in Workers |-> <<>>] /\ creator = <<>>

\* ------------------------------------------------------ the entity store
NoProduct == [id |-> 0, current_price |-> 0]

\* Database.get_product_by_url: the row of the url, or None (id 0)
get_product_by_url(url) == products[url]

\* cursor.lastrowid of an INSERT into products (AUTOINCREMENT, rows are never deleted)
lastrowid == Cardinality({u \in URLS : products[u].id # 0}) + 1

\* Database.add_price_history: INSERT one row, recorded_at = CURRENT_TIMESTAMP
add_price_history(history, product_id, price) ==
    Append(history, [product_id |-> product_id, price |-> price, recorded_at |-> now])

\* Database.add_product: INSERT the product, then add the initial price to the ledger
add_product(url, price) ==
    [products |-> [products EXCEPT ![url] = [id |-> lastrowid, current_price |-> price]],
     price_history |-> add_price_history(price_history, lastrowid, price)]

\* an update_product that appends whenever the product exists
price_changed_always(old_product, price) ==
    old_product.id # 0

\* the test of Database.update_product that decides the ledger append
price_changed(old_product, price) ==
    old_product.id # 0 /\ old_product.current_price # price

\* Database.update_product: read the old row, UPDATE, append if the price changed
update_product(url, price) ==
    LET old_product == get_product_by_url(url) IN
    [products |-> IF old_product.id # 0
                  THEN [products EXCEPT ![url].current_price = price]
                  ELSE products,
     price_history |-> IF price_changed(old_product, price)
                       THEN add_price_history(price_history, old_product.id, price)
                       ELSE price_history]

\* PriceTracker.track_product after a successful scrape: update or add
track_product(url, price) ==
    IF get_product_by_url(url).id # 0 THEN update_product(url, price)
                                      ELSE add_product(url, price)

\* the ledger rows of one product, oldest insertion first
RowsOf(product_id) ==
    LET idx == {k \in 1..Len(price_history) : price_history[k].product_id = product_id}
        RECURSIVE pick(_)
        pick(k) == IF k > Len(price_history) THEN <<>>
                   ELSE IF k \in idx THEN <<price_history[k]>> \o pick(k + 1)
                   ELSE pick(k + 1)
    IN pick(1)

\* stores a run can start from: every subset of the URLs already tracked with
\* one observation each, as add_product leaves them
RECURSIVE InitialStore(_)
InitialStore(known) ==
    IF known = {} THEN {[products |-> [u \in URLS |-> NoProduct], price_history |-> <<>>]}
    ELSE LET u == CHOOSE x \in known : \A y \in known : x >= y IN
         {[products |-> [s.products EXCEPT ![u] =
                            [id |-> Len(s.price_history) + 1, current_price |-> p]],
           price_history |-> Append(s.price_history,
                            [product_id |-> Len(s.price_history) + 1, price |-> p,
                             recorded_at |-> 0])] :
             s \in InitialStore(known \ {u}), p \in {MaxPrice}}

\* ------------------------------------------------- web_app.py: the job
\* the target lists read_urls_from_file can produce: non-empty (upload_file
\* answers 400 for an empty list), duplicates allowed
RECURSIVE SeqsOfLen(_)
SeqsOfLen(n) ==
    IF n = 0 THEN {<<>>}
    ELSE {Append(s, u) : s \in SeqsOfLen(n - 1), u \in URLS}

TargetLists == UNION {SeqsOfLen(n) : n \in 1..MaxUrls}

\* upload_file: the record created for a submitted job
JobRecord(targets) ==
    [status |-> "queued", total |-> Len(targets), current |-> 0, success |-> 0,
     failed |-> 0, current_url |-> 0, download_file |-> FALSE, errors |-> <<>>,
     error |-> "None"]

Terminal == {"completed", "failed", "cancelled"}

\* a call into the store or save_jobs may raise
MayRaise == faults < MaxFaults

\* bookkeeping of a raise while item i is being processed
RaiseInItem ==
    /\ faults' = faults + 1
    /\ fault_at' = IF fault_at = 0 THEN i ELSE fault_at

NoRaise == UNCHANGED <<faults, fault_at>>

\* the outcome of a `with jobs_lock: ...; save_jobs()` block entered at item i:
\* the fields are written in memory, then save_jobs returns or raises
SaveOr(ok_pc, raise_pc) ==
    \/ pc' = ok_pc /\ NoRaise
    \/ MayRaise /\ pc' = raise_pc /\ RaiseInItem

\* the states config/sites.json can be in when a PriceTracker is constructed
ConfigSources == {"missing", "unparseable", "valid"}

\* PriceTracker.__init__, lines 25-27: the file is parsed only if it exists,
\* and json.load raises on a file that is not JSON
init_raises(source) == source = "unparseable"

\* PriceTracker.__init__: the override table after a construction that returned
site_configs(source) == IF source = "valid" THEN "table" ELSE "empty"

\* scrape_job, lines 96-101: mark the job running, then construct the
\* tracker; a raise here is outside the try block and ends the thread
Start ==
    /\ program = "web_app" /\ pc = "queued"
    /\ job' = [job EXCEPT !.status = "running"]
    /\ \/ ~init_raises(config_source) /\ pc' = "loop" /\ UNCHANGED faults
       \/ init_raises(config_source) /\ pc' = "dead" /\ UNCHANGED faults
       \/ MayRaise /\ pc' = "dead" /\ faults' = faults + 1
    /\ UNCHANGED <<clivars, delays, calls, config_source, artifact,
                   dbvars, program, urls, i, success_count, failed_count, errors, stats,
                   fetches, fetch_failed, skips, fault_at, response, cancel_accepted>>

\* scrape_job, lines 108-113: take the next target and publish the progress
NextItem ==
    /\ pc = "loop" /\ i < Len(urls)
    /\ i' = i + 1
    /\ job' = [job EXCEPT !.current = i + 1, !.current_url = urls[i + 1]]
    /\ \/ pc' = "scrape" /\ NoRaise
       \/ MayRaise /\ pc' = "outer_except" /\ faults' = faults + 1
                   /\ fault_at' = IF fault_at = 0 THEN i + 1 ELSE fault_at
    /\ UNCHANGED <<clivars, delays, calls, config_source, artifact,
                   dbvars, program, urls, success_count, failed_count, errors, stats,
                   fetches, fetch_failed, skips, response, cancel_accepted>>

\* scrape_job, line 108: the target list is exhausted
Exhausted ==
    /\ pc = "loop" /\ i >= Len(urls)
    /\ pc' = "export"
    /\ UNCHANGED <<clivars, delays, calls, config_source, artifact,
                   dbvars, program, urls, job, i, success_count, failed_count, errors,
                   stats, histvars>>

\* scrape_job, line 117: the lookup of the target raises
LookupRaises ==
    /\ pc = "scrape" /\ MayRaise
    /\ pc' = "inner_except" /\ RaiseInItem
    /\ UNCHANGED <<clivars, delays, calls, config_source, artifact,
                   dbvars, program, urls, job, i, success_count, failed_count, errors,
                   stats, fetches, fetch_failed, skips, response, cancel_accepted>>

\* a bulk run that re-extracts a tracked target instead of skipping it
AlreadyTracked_refetch ==
    /\ pc = "scrape" /\ get_product_by_url(urls[i]).id # 0
    /\ fetches' = fetches + 1
    /\ pc' = "fetching"
    /\ UNCHANGED <<clivars, delays, calls, config_source, artifact,
                   dbvars, program, urls, job, i, success_count, failed_count, errors,
                   stats, fetch_failed, skips, faults, fault_at, response, cancel_accepted>>

\* scrape_job, lines 117-119: the target is already tracked: count a success
AlreadyTracked ==
    /\ pc = "scrape" /\ get_product_by_url(urls[i]).id # 0
    /\ success_count' = success_count + 1
    /\ skips' = skips + 1
    /\ pc' = "save_skip"
    /\ UNCHANGED <<clivars, delays, calls, config_source, artifact,
                   dbvars, program, urls, job, i, failed_count, errors, stats,
                   fetches, fetch_failed, faults, fault_at, response, cancel_accepted>>

\* scrape_job, lines 120-122: publish the success count of a skipped target
SaveSkip ==
    /\ pc = "save_skip"
    /\ job' = [job EXCEPT !.success = success_count]
    /\ SaveOr("delay", "inner_except")
    /\ UNCHANGED <<clivars, delays, calls, config_source, artifact,
                   dbvars, program, urls, i, success_count, failed_count, errors, stats,
                   fetches, fetch_failed, skips, response, cancel_accepted>>

\* scrape_job, lines 123-124, and track_product, lines 41-53: the target is
\* not tracked, the fetch is issued and is in flight
Track ==
    /\ pc = "scrape" /\ get_product_by_url(urls[i]).id = 0
    /\ fetches' = fetches + 1
    /\ pc' = "fetching"
    /\ UNCHANGED <<clivars, delays, calls, config_source, artifact,
                   dbvars, program, urls, job, i, success_count, failed_count, errors,
                   stats, fetch_failed, skips, faults, fault_at, response, cancel_accepted>>

\* track_product, lines 55-57, and scrape_job, lines 127-129: the fetch failed
FetchFails ==
    /\ pc = "fetching"
    /\ failed_count' = failed_count + 1
    /\ errors' = Append(errors, [url |-> urls[i], error |-> "Failed to scrape"])
    /\ fetch_failed' = fetch_failed \cup {i}
    /\ pc' = "save_counts"
    /\ UNCHANGED <<clivars, delays, calls, config_source, artifact,
                   dbvars, program, urls, job, i, success_count, stats,
                   fetches, skips, faults, fault_at, response, cancel_accepted>>

\* track_product, lines 59-73, and scrape_job, lines 125-126: the fetch gave
\* a product, which is stored
FetchOk(price) ==
    /\ pc = "fetching"
    /\ LET db == track_product(urls[i], price) IN
        /\ products' = db.products
        /\ price_history' = db.price_history
    /\ success_count' = success_count + 1
    /\ pc' = "save_counts"
    /\ UNCHANGED <<clivars, delays, calls, config_source, artifact,
                   now, program, urls, job, i, failed_count, errors, stats,
                   histvars>>

\* track_product, lines 60-67: the store raises while the product is written
StoreRaises ==
    /\ pc = "fetching" /\ MayRaise
    /\ pc' = "inner_except" /\ RaiseInItem
    /\ UNCHANGED <<clivars, delays, calls, config_source, artifact,
                   dbvars, program, urls, job, i, success_count, failed_count, errors,
                   stats, fetches, fetch_failed, skips, response, cancel_accepted>>

\* a worker that publishes the success count only
SaveCounts_success_only ==
    /\ pc = "save_counts"
    /\ job' = [job EXCEPT !.success = success_count]
    /\ SaveOr("delay", "inner_except")
    /\ UNCHANGED <<clivars, delays, calls, config_source, artifact,
                   dbvars, program, urls, i, success_count, failed_count, errors, stats,
                   fetches, fetch_failed, skips, response, cancel_accepted>>

\* scrape_job, lines 131-134: publish both counts after a fetched target
SaveCounts ==
    /\ pc = "save_counts"
    /\ job' = [job EXCEPT !.success = success_count, !.failed = failed_count]
    /\ SaveOr("delay", "inner_except")
    /\ UNCHANGED <<clivars, delays, calls, config_source, artifact,
                   dbvars, program, urls, i, success_count, failed_count, errors, stats,
                   fetches, fetch_failed, skips, response, cancel_accepted>>

\* scrape_job, lines 136-141: any exception of the item is a per-item failure
InnerExcept ==
    /\ pc = "inner_except"
    /\ failed_count' = failed_count + 1
    /\ errors' = Append(errors, [url |-> urls[i], error |-> "exception"])
    /\ job' = [job EXCEPT !.failed = failed_count + 1]
    /\ SaveOr("delay", "outer_except")
    /\ UNCHANGED <<clivars, delays, calls, config_source, artifact,
                   dbvars, program, urls, i, success_count, stats,
                   fetches, fetch_failed, skips, response, cancel_accepted>>

\* a worker that sleeps after every target, the last one included
Delay_after_every_item ==
    /\ pc = "delay"
    /\ delays' = delays + 1
    /\ pc' = "loop"
    /\ UNCHANGED <<clivars, calls, config_source, artifact,
                   dbvars, program, urls, job, i, success_count, failed_count, errors,
                   stats, histvars>>

\* scrape_job, lines 143-145: sleep between targets (not after the last
\* one), then the next iteration
Delay ==
    /\ pc = "delay"
    /\ delays' = IF i < Len(urls) THEN delays + 1 ELSE delays
    /\ pc' = "loop"
    /\ UNCHANGED <<clivars, calls, config_source, artifact,
                   dbvars, program, urls, job, i, success_count, failed_count, errors,
                   stats, histvars>>

\* export_to_csv, lines 196-203 and 229: the file is opened for writing only
\* when get_all_products returned at least one row
export_writes == \E u \in URLS : products[u].id # 0

\* scrape_job, lines 147-151: write the result artifact
Export ==
    /\ pc = "export"
    /\ \/ pc' = "mark_completed" /\ artifact' = (artifact \/ export_writes)
          /\ UNCHANGED faults
       \/ MayRaise /\ pc' = "outer_except" /\ faults' = faults + 1
          /\ UNCHANGED artifact
    /\ UNCHANGED <<clivars, delays, calls, config_source,
                   dbvars, program, urls, job, i, success_count, failed_count, errors,
                   stats, fetches, fetch_failed, skips, fault_at, response, cancel_accepted>>

\* scrape_job, lines 153-159: mark the job completed
MarkCompleted ==
    /\ pc = "mark_completed"
    /\ job' = [job EXCEPT !.status = "completed", !.download_file = TRUE,
                          !.errors = errors]
    /\ \/ pc' = "done" /\ UNCHANGED faults
       \/ MayRaise /\ pc' = "outer_except" /\ faults' = faults + 1
    /\ UNCHANGED <<clivars, delays, calls, config_source, artifact,
                   dbvars, program, urls, i, success_count, failed_count, errors, stats,
                   fetches, fetch_failed, skips, fault_at, response, cancel_accepted>>

\* scrape_job, lines 161-168: an exception outside the per-item handler
OuterExcept ==
    /\ pc = "outer_except"
    /\ job' = [job EXCEPT !.status = "failed", !.error = "exception"]
    /\ \/ pc' = "done" /\ UNCHANGED faults
       \/ MayRaise /\ pc' = "dead" /\ faults' = faults + 1
    /\ UNCHANGED <<clivars, delays, calls, config_source, artifact,
                   dbvars, program, urls, i, success_count, failed_count, errors, stats,
                   fetches, fetch_failed, skips, fault_at, response, cancel_accepted>>

\* a cancel_job that also accepts a job still queued
cancel_accepts_queued(status) == status \in {"queued", "running"}

\* cancel_job: accepted only for a running job
cancel_accepts(status) == status = "running"

\* cancel_job, lines 282-294, one request under jobs_lock
Cancel ==
    /\ program = "web_app"
    /\ IF cancel_accepts(job.status)
       THEN /\ job' = [job EXCEPT !.status = "cancelled"]
            /\ cancel_accepted' = TRUE
            /\ \/ response' = "accepted" /\ UNCHANGED faults
               \/ MayRaise /\ response' = "error" /\ faults' = faults + 1
       ELSE /\ response' = "rejected"
            /\ UNCHANGED <<job, faults, cancel_accepted>>
    /\ UNCHANGED <<clivars, delays, calls, config_source, artifact,
                   dbvars, program, urls, pc, i, success_count, failed_count, errors,
                   stats, fetches, fetch_failed, skips, fault_at>>

WorkerStep ==
    \/ Start \/ NextItem \/ Exhausted \/ LookupRaises \/ AlreadyTracked \/ SaveSkip
    \/ Track \/ FetchFails \/ (\E price \in Prices : FetchOk(price)) \/ StoreRaises
    \/ SaveCounts \/ InnerExcept \/ Delay \/ Export \/ MarkCompleted \/ OuterExcept

\* -------------------------------------- bulk_scraper.py: the bulk runner
\* BulkScraper.__init__, lines 42-49
InitialStats == [total |-> 0, success |-> 0, failed |-> 0, skipped |-> 0, errors |-> <<>>]

\* scrape_bulk, lines 150-160: update the statistics with scrape_url's result
count_result(success, message) ==
    IF success
    THEN [stats EXCEPT !.success = @ + 1]
    ELSE [stats EXCEPT !.failed = @ + 1,
                       !.errors = Append(@, [url |-> urls[i], error |-> message])]

\* scrape_bulk, lines 121-132
BulkStart ==
    /\ program = "bulk_scraper" /\ pc = "bulk_start"
    /\ stats' = [stats EXCEPT !.total = Len(urls)]
    /\ pc' = "bulk_loop"
    /\ UNCHANGED <<clivars, delays, calls, config_source, artifact,
                   dbvars, program, urls, job, i, success_count, failed_count, errors,
                   histvars>>

\* scrape_bulk, lines 134-148: take the next target and call scrape_url
BulkNextItem ==
    /\ pc = "bulk_loop" /\ i < Len(urls)
    /\ i' = i + 1
    /\ pc' = "bulk_scrape"
    /\ UNCHANGED <<clivars, delays, calls, config_source, artifact,
                   dbvars, program, urls, job, success_count, failed_count, errors,
                   stats, histvars>>

\* scrape_bulk, lines 171-175: the list is exhausted, the statistics are returned
BulkExhausted ==
    /\ pc = "bulk_loop" /\ i >= Len(urls)
    /\ pc' = "bulk_done"
    /\ calls' = calls + 1
    /\ UNCHANGED <<clivars, delays, config_source, artifact,
                   dbvars, program, urls, job, i, success_count, failed_count, errors,
                   stats, histvars>>

\* scrape_url, lines 95 and 107-108: the lookup raises, the result is a failure
BulkLookupRaises ==
    /\ pc = "bulk_scrape" /\ MayRaise
    /\ stats' = count_result(FALSE, "exception")
    /\ pc' = "bulk_delay" /\ RaiseInItem
    /\ UNCHANGED <<clivars, delays, calls, config_source, artifact,
                   dbvars, program, urls, job, i, success_count, failed_count, errors,
                   fetches, fetch_failed, skips, response, cancel_accepted>>

\* scrape_url, lines 95-97: the target is already tracked: success, no fetch
BulkAlreadyTracked ==
    /\ pc = "bulk_scrape" /\ get_product_by_url(urls[i]).id # 0
    /\ stats' = count_result(TRUE, "Already tracked")
    /\ skips' = skips + 1
    /\ pc' = "bulk_delay"
    /\ UNCHANGED <<clivars, delays, calls, config_source, artifact,
                   dbvars, program, urls, job, i, success_count, failed_count, errors,
                   fetches, fetch_failed, faults, fault_at, response, cancel_accepted>>

\* scrape_url, lines 99-100, and track_product, lines 41-53: the fetch is issued
BulkTrack ==
    /\ pc = "bulk_scrape" /\ get_product_by_url(urls[i]).id = 0
    /\ fetches' = fetches + 1
    /\ pc' = "bulk_fetching"
    /\ UNCHANGED <<clivars, delays, calls, config_source, artifact,
                   dbvars, program, urls, job, i, success_count, failed_count, errors,
                   stats, fetch_failed, skips, faults, fault_at, response, cancel_accepted>>

\* scrape_url, lines 104-105: the fetch failed
BulkFetchFails ==
    /\ pc = "bulk_fetching"
    /\ stats' = count_result(FALSE, "Failed to scrape product")
    /\ fetch_failed' = fetch_failed \cup {i}
    /\ pc' = "bulk_delay"
    /\ UNCHANGED <<clivars, delays, calls, config_source, artifact,
                   dbvars, program, urls, job, i, success_count, failed_count, errors,
                   fetches, skips, faults, fault_at, response, cancel_accepted>>

\* scrape_url, lines 102-103: the fetch gave a product, which is stored
BulkFetchOk(price) ==
    /\ pc = "bulk_fetching"
    /\ LET db == track_product(urls[i], price) IN
        /\ products' = db.products
        /\ price_history' = db.price_history
    /\ stats' = count_result(TRUE, "Added successfully")
    /\ pc' = "bulk_delay"
    /\ UNCHANGED <<clivars, delays, calls, config_source, artifact,
                   now, program, urls, job, i, success_count, failed_count, errors,
                   histvars>>

\* scrape_url, lines 107-108: the store raises while the product is written
BulkStoreRaises ==
    /\ pc = "bulk_fetching" /\ MayRaise
    /\ stats' = count_result(FALSE, "exception")
    /\ pc' = "bulk_delay" /\ RaiseInItem
    /\ UNCHANGED <<clivars, delays, calls, config_source, artifact,
                   dbvars, program, urls, job, i, success_count, failed_count, errors,
                   fetches, fetch_failed, skips, response, cancel_accepted>>

\* scrape_bulk, lines 165-169: sleep between targets (not after the last
\* one), then the next iteration
BulkDelay ==
    /\ pc = "bulk_delay"
    /\ delays' = IF i < Len(urls) THEN delays + 1 ELSE delays
    /\ pc' = "bulk_loop"
    /\ UNCHANGED <<clivars, calls, config_source, artifact,
                   dbvars, program, urls, job, i, success_count, failed_count, errors,
                   stats, histvars>>

BulkStep ==
    \/ BulkStart \/ BulkNextItem \/ BulkExhausted \/ BulkLookupRaises
    \/ BulkAlreadyTracked \/ BulkTrack \/ BulkFetchFails
    \/ (\E price \in Prices : BulkFetchOk(price)) \/ BulkStoreRaises \/ BulkDelay

\* ------------------------------------------- the bulk runs: Init and Next
Init ==
    /\ program \in {"web_app", "bulk_scraper"}
    /\ urls \in TargetLists
    /\ \E known \in SUBSET URLS : \E s \in InitialStore(known) :
          products = s.products /\ price_history = s.price_history
    /\ now = 0
    /\ job = JobRecord(urls)
    /\ pc = IF program = "web_app" THEN "queued" ELSE "bulk_start"
    /\ i = 0 /\ success_count = 0 /\ failed_count = 0 /\ errors = <<>>
    /\ stats = InitialStats
    /\ config_source \in (IF program = "web_app" THEN ConfigSources ELSE {"missing"})
    /\ artifact = FALSE /\ delays = 0 /\ calls = 0
    /\ fetches = 0 /\ fetch_failed = {} /\ skips = 0
    /\ faults = 0 /\ fault_at = 0 /\ response = "none" /\ cancel_accepted = FALSE
    /\ ops = [u \in URLS |-> <<>>] /\ shown = [u \in URLS |-> <<>>]
    /\ rate_limit = 0 /\ last_request_time = 0 /\ current_time = 0
    /\ sleep_until = 0 /\ rl_pc = "idle" /\ returns = <<>>
    /\ ExtractIdle /\ LockIdle /\ ConcIdle

Next == WorkerStep \/ Cancel \/ BulkStep

Spec == Init /\ [][Next]_vars

\* ------------------------------------------------ claims on the bulk runs
Known(url) == products[url].id # 0

\* C1: terminal job states are absorbing: once the status is completed,
\* failed or cancelled, no step of the worker and no cancel request changes it.
C1_TerminalAbsorbing ==
    [][job.status \in Terminal => job'.status = job.status]_vars

\* C2: cooperative cancellation: once a cancel request has been accepted
\* (the status is cancelled), the worker starts no further target, so the
\* progress cursor of the job no longer moves.
C2_CooperativeCancel ==
    [][job.status = "cancelled" => job'.current = job.current]_vars

\* C3: in every job state an observer can read, success + failed <= current
\* <= total, and current = total whenever the status is completed.
C3_ProgressInvariant ==
    /\ job.success + job.failed <= job.current
    /\ job.current <= job.total
    /\ job.status = "completed" => job.current = job.total

\* the failure entries of the targets whose fetch failed, in list order
RECURSIVE FailureEntries(_)
FailureEntries(k) ==
    IF k > Len(urls) THEN <<>>
    ELSE IF k \in fetch_failed
         THEN <<[url |-> urls[k], error |-> "Failed to scrape"]>> \o FailureEntries(k + 1)
         ELSE FailureEntries(k + 1)

\* C4: partial-failure accounting: a job that ended, was not cancelled, met
\* no raise of a store or of the construction of its tracker and found no
\* target already known, is completed with success = n - |F|,
\* failed = |F| and one failure entry per target of F, where F is the set of
\* targets whose fetch failed.
C4_PartialFailure ==
    (program = "web_app" /\ pc \in {"done", "dead"} /\ ~cancel_accepted
        /\ faults = 0 /\ ~init_raises(config_source) /\ skips = 0)
    => /\ job.status = "completed"
       /\ job.success = Len(urls) - Cardinality(fetch_failed)
       /\ job.failed = Cardinality(fetch_failed)
       /\ job.errors = FailureEntries(1)

C4_Witness ==
    /\ program = "web_app" /\ pc = "done" /\ ~cancel_accepted
    /\ faults = 0 /\ skips = 0
    /\ Len(urls) >= 2 /\ fetch_failed = {Len(urls)}
    /\ job.status = "completed" /\ job.success = Len(urls) - 1 /\ job.failed = 1

\* C5: a raise of the entity store or of the job store while an item is
\* processed is fatal: no later target is processed, and the job ends failed
\* with the error retained.
C5_PersistenceFatal ==
    (program = "web_app" /\ fault_at > 0)
    => /\ job.current = fault_at
       /\ pc \in {"done", "dead"} => (job.status = "failed" /\ job.error # "None")

\* C6: idempotent skip: a bulk run that reaches a target whose URL is already
\* tracked (and whose lookup returns) counts it as a success, issues no fetch
\* and leaves the entity store and the ledger unchanged, in scrape_job and in
\* BulkScraper.scrape_url alike.
C6_IdempotentSkip ==
    [][/\ (pc = "scrape" /\ Known(urls[i]) /\ pc' # pc /\ faults' = faults)
            => /\ pc' = "save_skip"
               /\ success_count' = success_count + 1
               /\ failed_count' = failed_count
               /\ fetches' = fetches
               /\ products' = products /\ price_history' = price_history
       /\ (pc = "save_skip" /\ pc' # pc)
            => /\ job'.success = success_count
               /\ fetches' = fetches
               /\ products' = products /\ price_history' = price_history
       /\ (pc = "bulk_scrape" /\ Known(urls[i]) /\ pc' # pc /\ faults' = faults)
            => /\ pc' = "bulk_delay"
               /\ stats'.success = stats.success + 1
               /\ stats'.failed = stats.failed
               /\ fetches' = fetches
               /\ products' = products /\ price_history' = price_history
      ]_vars

C6_Witness ==
    /\ pc \in {"done", "bulk_done"}
    /\ skips = Len(urls) /\ fetches = 0 /\ faults = 0
    /\ Len(urls) >= 2
    /\ program = "web_app" => job.success = Len(urls)
    /\ program = "bulk_scraper" => stats.success = Len(urls)

\* C10: a cancel request is accepted if and only if the job is running at
\* that moment; for a queued, completed, failed or cancelled job it is
\* rejected and the job record is left unchanged.  (A cancel request is the
\* only step that leaves the worker where it is; when save_jobs raises after
\* the status was set, the request is answered with an error instead.)
C10_CancelContract ==
    [][pc' = pc =>
        /\ job.status = "running"
             => /\ job' = [job EXCEPT !.status = "cancelled"]
                /\ faults' = faults => response' = "accepted"
        /\ job.status # "running"
             => /\ job' = job
                /\ response' = "rejected"
        /\ response' = "accepted" => job.status = "running"
      ]_vars

C10_Witness ==
    /\ cancel_accepted /\ response = "rejected" /\ job.status \in Terminal

\* ------------------------------------- main.py / export_csv.py: the ledger
MaxOps == 3
MaxTime == 1
ExportLimit == 1000

Min(a, b) == IF a <= b THEN a ELSE b

Reverse(s) == [k \in 1..Len(s) |-> s[Len(s) + 1 - k]]

IsPrefix(s, t) == Len(s) <= Len(t) /\ SubSeq(t, 1, Len(s)) = s

\* the orders in which ORDER BY recorded_at DESC can return the rows with the
\* given indices: the next row is any of those with the greatest recorded_at.
\* SQL leaves the order of rows with equal recorded_at unspecified, so every
\* order of the ties is a possible result.
RECURSIVE OrderByRecordedAtDesc(_, _)
OrderByRecordedAtDesc(rows, idx) ==
    IF idx = {} THEN {<<>>}
    ELSE UNION {{<<rows[k]>> \o rest : rest \in OrderByRecordedAtDesc(rows, idx \ {k})} :
                  k \in {a \in idx : \A b \in idx : rows[a].recorded_at >= rows[b].recorded_at}}

\* Database.get_price_history: the rows of the product ORDER BY recorded_at
\* DESC LIMIT limit
get_price_history(product_id, limit) ==
    LET rows == RowsOf(product_id) IN
    {SubSeq(r, 1, Min(limit, Len(r))) : r \in OrderByRecordedAtDesc(rows, 1..Len(rows))}

TotalOps == LET RECURSIVE sum(_)
                sum(u) == IF u > NumUrls THEN 0 ELSE Len(ops[u]) + sum(u + 1)
            IN sum(1)

\* the number of add/update commands the run has issued so far; a failed
\* fetch is remembered once per url and state of the url
Commands == TotalOps + Cardinality(fetch_failed)

\* main.py, lines 51-61 (commands add and update): track_product on a url
\* whose fetch gives a product with the given price
MainTrack(url, price) ==
    /\ program = "main" /\ Commands < MaxOps
    /\ LET db == track_product(url, price) IN
        /\ products' = db.products
        /\ price_history' = db.price_history
    /\ ops' = [ops EXCEPT ![url] = Append(@, price)]
    /\ UNCHANGED <<now, jobvars, histvars, shown, ratevars, extractvars, lockvars, concvars>>

\* a track_product that stores what it has before it looks at the fetch
MainTrackFails_after_store(url) ==
    /\ program = "main" /\ Commands < MaxOps
    /\ fetch_failed' = fetch_failed \cup {[url |-> url, tracked |-> products[url].id # 0]}
    /\ LET db == track_product(url, 0) IN
        /\ products' = db.products
        /\ price_history' = db.price_history
    /\ UNCHANGED <<now, jobvars, ledgervars, ratevars, extractvars, lockvars, concvars,
                   fetches, skips, faults, fault_at, response, cancel_accepted>>

\* main.py, lines 51-61, and track_product, lines 41-57: the fetch or the
\* extraction fails, scrape_product returns None and track_product returns
\* None before it reaches the store
MainTrackFails(url) ==
    /\ program = "main" /\ Commands < MaxOps
    /\ fetch_failed' = fetch_failed \cup {[url |-> url, tracked |-> products[url].id # 0]}
    /\ UNCHANGED <<dbvars, jobvars, ledgervars, ratevars, extractvars, lockvars, concvars,
                   fetches, skips, faults, fault_at, response, cancel_accepted>>

\* export_price_history_csv, lines 323-349: read the history of one product
\* and walk it reversed, oldest first
ExportHistory(url) ==
    /\ program = "main" /\ products[url].id # 0
    /\ \E history \in get_price_history(products[url].id, ExportLimit) :
          shown' = [shown EXCEPT ![url] = Reverse(history)]
    /\ UNCHANGED <<dbvars, jobvars, histvars, ops, ratevars, extractvars, lockvars, concvars>>

\* CURRENT_TIMESTAMP advances by one second
Tick ==
    /\ program = "main"
    /\ now < MaxTime
    /\ now' = now + 1
    /\ UNCHANGED <<products, price_history, jobvars, histvars, clivars>>

InitLedger ==
    /\ program = "main"
    /\ products = [u \in URLS |-> NoProduct] /\ price_history = <<>> /\ now = 0
    /\ urls = <<>> /\ job = JobRecord(<<>>) /\ pc = "main"
    /\ i = 0 /\ success_count = 0 /\ failed_count = 0 /\ errors = <<>>
    /\ stats = InitialStats /\ config_source = "missing" /\ artifact = FALSE
    /\ delays = 0 /\ calls = 0
    /\ fetches = 0 /\ fetch_failed = {} /\ skips = 0
    /\ faults = 0 /\ fault_at = 0 /\ response = "none" /\ cancel_accepted = FALSE
    /\ ops = [u \in URLS |-> <<>>] /\ shown = [u \in URLS |-> <<>>]
    /\ rate_limit = 0 /\ last_request_time = 0 /\ current_time = 0
    /\ sleep_until = 0 /\ rl_pc = "idle" /\ returns = <<>>
    /\ ExtractIdle /\ LockIdle /\ ConcIdle

NextLedger ==
    \/ \E url \in URLS, price \in Prices : MainTrack(url, price)
    \/ \E url \in URLS : MainTrackFails(url)
    \/ Tick

\* the tracker commands alone
SpecLedger == InitLedger /\ [][NextLedger]_vars

NextExport ==
    \/ \E url \in URLS, price \in Prices : MainTrack(url, price)
    \/ \E url \in URLS : ExportHistory(url)
    \/ Tick

\* the tracker commands interleaved with exports of the price history
SpecExport == InitLedger /\ [][NextExport]_vars

\* the prices of the ledger of a url, oldest insertion first
LedgerPrices(url) ==
    LET rows == RowsOf(products[url].id) IN [k \in 1..Len(rows) |-> rows[k].price]

\* a sequence with every run of equal consecutive values collapsed to one
RECURSIVE Collapse(_)
Collapse(s) ==
    IF Len(s) <= 1 THEN s
    ELSE LET front == Collapse(SubSeq(s, 1, Len(s) - 1)) IN
         IF s[Len(s)] = front[Len(front)] THEN front ELSE Append(front, s[Len(s)])

\* C7: ledger append rule: an add/update operation appends an observation if
\* and only if the entity has none yet or the price differs from the most
\* recent one; so the ledger of an entity is the sequence of the recorded
\* prices with consecutive repetitions collapsed (the same price twice gives
\* one observation, two different prices give two, in that order).
C7_AppendRule ==
    program = "main" =>
        \A url \in URLS :
            /\ products[url].id # 0 <=> ops[url] # <<>>
            /\ products[url].id # 0 => LedgerPrices(url) = Collapse(ops[url])

C7_Witness ==
    /\ program = "main"
    /\ \E url \in URLS :
          /\ Len(ops[url]) = 3
          /\ ops[url][1] = ops[url][2] /\ ops[url][2] # ops[url][3]
          /\ Len(LedgerPrices(url)) = 2

\* C8: the ledger is append-only and ordered: the history returned for an
\* entity, oldest first, has every earlier returned history of that entity
\* as a prefix, also when observations share a recorded-at timestamp.
C8_PrefixOrdered ==
    [][\A url \in URLS : IsPrefix(shown[url], shown'[url])]_vars

\* ------------------------------ upc_price_lookup.py: the rate limiter
MaxCalls == 3
MaxElapsed == 7
Epoch == 60
SecondsPerMinute == 60

\* the rates a run is configured with: none, and rates that divide a minute
Rates == {0, 20, 30, 60}

\* UPCPriceLookup.__init__, line 43: the delay between requests, in seconds
request_delay == IF rate_limit > 0 THEN SecondsPerMinute \div rate_limit ELSE 0

\* the timestamp taken before the sleep, kept instead of a fresh one
stamp_stale == current_time

\* _rate_limit_delay, line 77: the timestamp kept for the next call
stamp == now

\* _rate_limit_delay, lines 69-70: enter; with no delay configured the call
\* returns at once, otherwise the clock is read
RateLimitEnter ==
    /\ program = "upc_price_lookup" /\ rl_pc = "idle" /\ Len(returns) < MaxCalls
    /\ IF request_delay > 0
       THEN /\ current_time' = now
            /\ rl_pc' = "check"
            /\ UNCHANGED returns
       ELSE /\ returns' = Append(returns, now)
            /\ UNCHANGED <<current_time, rl_pc>>
    /\ UNCHANGED <<dbvars, jobvars, histvars, ledgervars, extractvars, lockvars, concvars, rate_limit,
                   last_request_time, sleep_until>>

\* _rate_limit_delay, lines 71-75: sleep for the shortfall if there is one
RateLimitCheck ==
    /\ rl_pc = "check"
    /\ LET time_since_last == current_time - last_request_time IN
       IF time_since_last < request_delay
       THEN /\ sleep_until' = now + (request_delay - time_since_last)
            /\ rl_pc' = "sleeping"
       ELSE /\ rl_pc' = "stamp"
            /\ UNCHANGED sleep_until
    /\ UNCHANGED <<dbvars, jobvars, histvars, ledgervars, extractvars, lockvars, concvars, rate_limit,
                   last_request_time, current_time, returns>>

\* time.sleep returns once at least the requested time has passed
RateLimitWake ==
    /\ rl_pc = "sleeping" /\ now >= sleep_until
    /\ rl_pc' = "stamp"
    /\ UNCHANGED <<dbvars, jobvars, histvars, ledgervars, extractvars, lockvars, concvars, rate_limit,
                   last_request_time, current_time, sleep_until, returns>>

\* _rate_limit_delay, line 77: record the time of this call and return
RateLimitReturn ==
    /\ rl_pc = "stamp"
    /\ last_request_time' = stamp
    /\ returns' = Append(returns, now)
    /\ rl_pc' = "idle"
    /\ UNCHANGED <<dbvars, jobvars, histvars, ledgervars, extractvars, lockvars, concvars, rate_limit,
                   current_time, sleep_until>>

\* the wall clock advances by one second
ClockTick ==
    /\ program = "upc_price_lookup"
    /\ now < Epoch + MaxElapsed
    /\ now' = now + 1
    /\ UNCHANGED <<products, price_history, jobvars, histvars, clivars>>

InitRate ==
    /\ program = "upc_price_lookup"
    /\ products = [u \in URLS |-> NoProduct] /\ price_history = <<>>
    /\ now = Epoch
    /\ urls = <<>> /\ job = JobRecord(<<>>) /\ pc = "main"
    /\ i = 0 /\ success_count = 0 /\ failed_count = 0 /\ errors = <<>>
    /\ stats = InitialStats /\ config_source = "missing" /\ artifact = FALSE
    /\ delays = 0 /\ calls = 0
    /\ fetches = 0 /\ fetch_failed = {} /\ skips = 0
    /\ faults = 0 /\ fault_at = 0 /\ response = "none" /\ cancel_accepted = FALSE
    /\ ops = [u \in URLS |-> <<>>] /\ shown = [u \in URLS |-> <<>>]
    /\ rate_limit \in Rates
    /\ last_request_time = 0 /\ current_time = 0
    /\ sleep_until = 0 /\ rl_pc = "idle" /\ returns = <<>>
    /\ ExtractIdle /\ LockIdle /\ ConcIdle

NextRate ==
    RateLimitEnter \/ RateLimitCheck \/ RateLimitWake \/ RateLimitReturn \/ ClockTick

SpecRate == InitRate /\ [][NextRate]_vars

\* C9: rate limiter spacing: with a rate R > 0 per minute, every call of
\* _rate_limit_delay returns no earlier than 60/R seconds after the previous
\* call returned, so N calls take at least (N-1) * 60/R seconds.
C9_Spacing ==
    (program = "upc_price_lookup" /\ rate_limit > 0) =>
        /\ \A k \in 2..Len(returns) :
              (returns[k] - returns[k - 1]) * rate_limit >= SecondsPerMinute
        /\ returns # <<>> =>
              (returns[Len(returns)] - returns[1]) * rate_limit
                  >= (Len(returns) - 1) * SecondsPerMinute

C9_Witness ==
    /\ program = "upc_price_lookup" /\ rate_limit = 20
    /\ Len(returns) = 3
    /\ returns[2] - returns[1] = 3
    /\ returns[3] - returns[1] > 6

\* ------------------------------------------- claims on the result artifact
\* download_csv, lines 297-320: the answer to a request for the job's file
download_csv ==
    IF job.status # "completed" THEN "400 Job not completed yet"
    ELSE IF ~job.download_file THEN "404 No file available"
    ELSE IF ~artifact THEN "404 File not found"
    ELSE "file"

\* C11: whenever the status of a job is completed, the result artifact has
\* been written and is referenced by the job record, so download_csv answers
\* with the file, whatever the counts and whatever the store contains.
C11_ArtifactOnCompletion ==
    (program = "web_app" /\ job.status = "completed")
    => (job.download_file /\ artifact /\ download_csv = "file")

\* C13: a missing or unparseable site-override file is never fatal: the
\* tracker is constructed with an empty override table and the job that was
\* started runs on (no raise of a store being involved).
C13_ConfigNeverFatal ==
    (program = "web_app" /\ config_source \in {"missing", "unparseable"}
        /\ pc # "queued" /\ faults = 0)
    => (pc # "dead" /\ site_configs(config_source) = "empty")

\* ----------------------------------- web_app.py: the lock of the job map
\* the threads that enter `with jobs_lock:` before they touch the job map
Locking == Threads \ {"get_stats"}

\* a `with jobs_lock:` block is entered: the thread blocks until the lock is
\* free; a worker exists for a submitted job, a submit takes an unused job id
Acquire(t) ==
    /\ program = "web_app" /\ t \in Locking
    /\ thread_pc[t] = "idle" /\ lock = "free"
    /\ t = "scrape_job" => \E j \in JobIds : jobs[j] \in {"queued", "running", "cancelled"}
    /\ t = "upload_file" => \E j \in JobIds : jobs[j] = "absent"
    /\ lock' = t /\ thread_pc' = [thread_pc EXCEPT ![t] = "locked"]
    /\ UNCHANGED <<dbvars, jobvars, histvars, ledgervars, ratevars, extractvars, concvars, jobs,
                   stats_view>>

\* the end of a `with jobs_lock:` block
Release(t) ==
    /\ thread_pc[t] = "locked" /\ lock = t
    /\ lock' = "free" /\ thread_pc' = [thread_pc EXCEPT ![t] = "idle"]

\* upload_file, lines 231-247: the record of a new job enters the map
UploadInsert(j) ==
    /\ Release("upload_file") /\ jobs[j] = "absent"
    /\ jobs' = [jobs EXCEPT ![j] = "queued"]
    /\ UNCHANGED <<dbvars, jobvars, histvars, ledgervars, ratevars, extractvars, concvars, stats_view>>

\* scrape_job, lines 96-99, 154-159 and 162-165: the worker of job j writes
\* the status; it does not look at the status it overwrites
WorkerWrite(j) ==
    /\ Release("scrape_job")
    /\ \/ jobs[j] = "queued" /\ jobs' = [jobs EXCEPT ![j] = "running"]
       \/ jobs[j] \in {"running", "cancelled"}
          /\ \E status \in {"completed", "failed"} : jobs' = [jobs EXCEPT ![j] = status]
    /\ UNCHANGED <<dbvars, jobvars, histvars, ledgervars, ratevars, extractvars, concvars, stats_view>>

\* cancel_job, lines 285-294
CancelWrite(j) ==
    /\ Release("cancel_job")
    /\ jobs' = IF cancel_accepts(jobs[j]) THEN [jobs EXCEPT ![j] = "cancelled"] ELSE jobs
    /\ UNCHANGED <<dbvars, jobvars, histvars, ledgervars, ratevars, extractvars, concvars, stats_view>>

\* get_jobs, get_job and download_csv, lines 266-279 and 297-320: read and leave
ReadLocked(t) ==
    /\ t \in {"get_jobs", "get_job", "download_csv"} /\ Release(t)
    /\ UNCHANGED <<dbvars, jobvars, histvars, ledgervars, ratevars, extractvars, concvars, jobs,
                   stats_view>>

\* the number of jobs of the map that have the given status
CountStatus(status) == Cardinality({j \in JobIds : jobs[j] = status})

\* get_stats, line 334: len(jobs), read without entering jobs_lock
StatsLen ==
    /\ program = "web_app" /\ thread_pc["get_stats"] = "idle"
    /\ thread_pc' = [thread_pc EXCEPT !["get_stats"] = "running_jobs"]
    /\ stats_view' = <<NumJobs - CountStatus("absent")>>
    /\ UNCHANGED <<dbvars, jobvars, histvars, ledgervars, ratevars, extractvars, concvars, lock, jobs>>

\* get_stats, lines 335-337: one pass over jobs.values() per counted status
StatsSum(status, next_pc) ==
    /\ thread_pc["get_stats"] = status \o "_jobs"
    /\ thread_pc' = [thread_pc EXCEPT !["get_stats"] = next_pc]
    /\ stats_view' = Append(stats_view, CountStatus(status))
    /\ UNCHANGED <<dbvars, jobvars, histvars, ledgervars, ratevars, extractvars, concvars, lock, jobs>>

InitLock ==
    /\ program = "web_app"
    /\ products = [u \in URLS |-> NoProduct] /\ price_history = <<>> /\ now = 0
    /\ urls = <<>> /\ job = JobRecord(<<>>) /\ pc = "main"
    /\ i = 0 /\ success_count = 0 /\ failed_count = 0 /\ errors = <<>>
    /\ stats = InitialStats /\ config_source = "missing" /\ artifact = FALSE
    /\ delays = 0 /\ calls = 0
    /\ fetches = 0 /\ fetch_failed = {} /\ skips = 0
    /\ faults = 0 /\ fault_at = 0 /\ response = "none" /\ cancel_accepted = FALSE
    /\ ops = [u \in URLS |-> <<>>] /\ shown = [u \in URLS |-> <<>>]
    /\ rate_limit = 0 /\ last_request_time = 0 /\ current_time = 0
    /\ sleep_until = 0 /\ rl_pc = "idle" /\ returns = <<>>
    /\ ExtractIdle /\ LockIdle /\ ConcIdle

NextLock ==
    \/ \E t \in Locking : Acquire(t)
    \/ \E j \in JobIds : UploadInsert(j)
    \/ \E j \in JobIds : WorkerWrite(j)
    \/ \E j \in JobIds : CancelWrite(j)
    \/ \E t \in Locking : ReadLocked(t)
    \/ StatsLen
    \/ StatsSum("running", "completed_jobs")
    \/ StatsSum("completed", "failed_jobs")
    \/ StatsSum("failed", "idle")

\* the threads of the web front end around the job map
SpecLock == InitLock /\ [][NextLock]_vars

\* C12: every read and every write of the job map is performed by a thread
\* that holds jobs_lock, so that nobody reads the map while another thread is
\* inside a block that modifies it.
C12_LockDiscipline ==
    \A t \in Threads : thread_pc[t] # "idle" => lock = t

\* ------------------------------------------ src/src/scraper.py: the texts
\* A text is a sequence of one-character strings.
Digits == {"0", "1", "2", "3", "4", "5", "6", "7", "8", "9"}

\* the letters that occur in the texts of the model
UpperLetters == {"A", "B", "C", "D", "E", "F", "G", "H", "I", "N", "P", "R", "S", "T", "U", "X"}
LowerLetters == {"a", "c", "e", "f", "h", "i", "n", "p", "r", "s", "u", "x"}

\* str.upper on one character, as re.IGNORECASE compares
upper(c) ==
    CASE c = "a" -> "A" [] c = "c" -> "C" [] c = "e" -> "E" [] c = "f" -> "F"
      [] c = "i" -> "I" [] c = "n" -> "N" [] c = "p" -> "P" [] c = "r" -> "R"
      [] c = "s" -> "S" [] c = "u" -> "U" [] c = "x" -> "X" [] c = "h" -> "H"
      [] OTHER -> c

\* the character classes \d, \w and \s of the regular expressions
IsDigit(c) == c \in Digits
IsWord(c) == c \in Digits \cup UpperLetters \cup LowerLetters \cup {"_"}
IsSpace(c) == c \in {" ", "\n"}

\* str.strip
RECURSIVE lstrip(_)
lstrip(s) == IF s # <<>> /\ IsSpace(s[1]) THEN lstrip(Tail(s)) ELSE s

RECURSIVE rstrip(_)
rstrip(s) ==
    IF s # <<>> /\ IsSpace(s[Len(s)]) THEN rstrip(SubSeq(s, 1, Len(s) - 1)) ELSE s

strip(s) == rstrip(lstrip(s))

\* str.startswith
startswith(s, prefix) ==
    Len(s) >= Len(prefix) /\ SubSeq(s, 1, Len(prefix)) = prefix

\* `sub in s` on texts
contains(s, sub) ==
    \E k \in 1..(Len(s) - Len(sub) + 1) : SubSeq(s, k, k + Len(sub) - 1) = sub

\* ------------------------------------------------------------ the floats
\* A float is a signed decimal, digits / 10^e, kept in its normal form (no
\* leading zero, no trailing zero after the point), or nan / inf.  Decimals
\* of up to 15 significant digits are distinct as doubles.
RECURSIVE Decimal(_, _, _)
Decimal(neg, digits, e) ==
    IF digits # <<>> /\ digits[1] = "0" THEN Decimal(neg, Tail(digits), e)
    ELSE IF digits # <<>> /\ e > 0 /\ digits[Len(digits)] = "0"
    THEN Decimal(neg, SubSeq(digits, 1, Len(digits) - 1), e - 1)
    ELSE [kind |-> "num", neg |-> neg /\ digits # <<>>, digits |-> digits,
          e |-> IF digits = <<>> THEN 0 ELSE e]

Zero == Decimal(FALSE, <<>>, 0)

Returned(value) == [raised |-> FALSE, value |-> value]
Raised(exception) == [raised |-> TRUE, value |-> exception]

\* float(str): surrounding whitespace, an optional sign, then digits with at
\* most one point, or nan / inf in any case; anything else is a ValueError.
\* (An exponent needs a letter e between digits, which no text of the model has.)
float(s) ==
    LET t == strip(s)
        signed == t # <<>> /\ t[1] \in {"+", "-"}
        neg == signed /\ t[1] = "-"
        body == IF signed THEN Tail(t) ELSE t
        points == {k \in DOMAIN body : body[k] = "."}
        name == [k \in DOMAIN body |-> upper(body[k])]
    IN  IF /\ \A k \in DOMAIN body : IsDigit(body[k]) \/ body[k] = "."
           /\ \E k \in DOMAIN body : IsDigit(body[k])
           /\ Cardinality(points) <= 1
        THEN Returned(Decimal(neg, SelectSeq(body, IsDigit),
                              IF points = {} THEN 0
                              ELSE Len(body) - (CHOOSE k \in points : TRUE)))
        ELSE IF name = <<"N", "A", "N">>
        THEN Returned([kind |-> "nan", neg |-> neg, digits |-> <<>>, e |-> 0])
        ELSE IF name = <<"I", "N", "F">>
        THEN Returned([kind |-> "inf", neg |-> neg, digits |-> <<>>, e |-> 0])
        ELSE Raised("ValueError")

\* x > 0 and x >= 0 on floats (every comparison with nan is False)
Positive(x) == x.kind \in {"num", "inf"} /\ ~x.neg /\ (x.kind = "num" => x.digits # <<>>)
NonNegative(x) == x.kind \in {"num", "inf"} /\ ~x.neg

KeepsInPrice(c) == IsDigit(c) \/ c = "."

\* ProductScraper._parse_price: drop every character that is neither a digit
\* nor a point, parse the rest; 0.0 when nothing is left or float raises
_parse_price(price_text) ==
    LET cleaned == SelectSeq(price_text, KeepsInPrice) IN
        IF cleaned # <<>> /\ ~float(cleaned).raised THEN float(cleaned).value ELSE Zero

\* a validation that accepts every count of digits from 10 to 14
_is_valid_upc_any(upc) ==
    LET digits == SelectSeq(upc, IsDigit) IN
        /\ Len(digits) \in 10..14
        /\ digits # <<>> /\ \A k \in DOMAIN digits : IsDigit(digits[k])

\* ProductScraper._is_valid_upc: the digits of the candidate are 10, 12, 13
\* or 14 (str.isdigit holds of a non-empty text of digits)
_is_valid_upc(upc) ==
    LET digits == SelectSeq(upc, IsDigit) IN
        /\ Len(digits) \in {10, 12, 13, 14}
        /\ digits # <<>> /\ \A k \in DOMAIN digits : IsDigit(digits[k])
\* -------------------------------------------- _extract_upc_from_text
\* the least element of a non-empty set of numbers
Least(S) == CHOOSE k \in S : \A j \in S : k <= j

\* line 325: spaces, hyphens and colons are removed
Squeezed(c) == c \notin {" ", "-", ":"}

\* the length of the run of digits that starts at position k
RECURSIVE DigitRun(_, _)
DigitRun(text, k) ==
    IF k <= Len(text) /\ IsDigit(text[k]) THEN 1 + DigitRun(text, k + 1) ELSE 0

\* [:\s]* from position k: the position after the separators
RECURSIVE SkipSeparators(_, _)
SkipSeparators(text, k) ==
    IF k <= Len(text) /\ (text[k] = ":" \/ IsSpace(text[k]))
    THEN SkipSeparators(text, k + 1) ELSE k

\* re.search(r'LABEL[:\s]*(\d{lo,hi})', text, re.IGNORECASE): group 1 of the
\* leftmost match, <<>> when there is none
SearchLabelled(text, label, lo, hi) ==
    LET after(k) == SkipSeparators(text, k + Len(label))
        starts == {k \in 1..Len(text) :
                     /\ k + Len(label) - 1 <= Len(text)
                     /\ \A j \in 1..Len(label) : upper(text[k + j - 1]) = label[j]
                     /\ DigitRun(text, after(k)) >= lo}
    IN  IF starts = {} THEN <<>>
        ELSE LET d == after(Least(starts)) IN
                 SubSeq(text, d, d + Min(DigitRun(text, d), hi) - 1)

\* re.search(r'\b(\d{n})\b', text): group 1 of the leftmost match, or <<>>
SearchRun(text, n) ==
    LET starts == {k \in 1..(Len(text) - n + 1) :
                     /\ \A j \in k..(k + n - 1) : IsDigit(text[j])
                     /\ k = 1 \/ ~IsWord(text[k - 1])
                     /\ k + n - 1 = Len(text) \/ ~IsWord(text[k + n])}
    IN  IF starts = {} THEN <<>>
        ELSE SubSeq(text, Least(starts), Least(starts) + n - 1)

\* ProductScraper._extract_upc_from_text: the match of the first pattern, in
\* the order of lines 328-335, whose match is a valid identifier; "" if none
_extract_upc_from_text(raw) ==
    LET text == SelectSeq(raw, Squeezed)
        matches == <<SearchLabelled(text, <<"U", "P", "C">>, 12, 14),
                     SearchLabelled(text, <<"G", "T", "I", "N">>, 12, 14),
                     SearchLabelled(text, <<"E", "A", "N">>, 12, 14),
                     SearchLabelled(text, <<"I", "S", "B", "N">>, 10, 13),
                     SearchRun(text, 12),
                     SearchRun(text, 13)>>
        valid == {p \in DOMAIN matches : matches[p] # <<>> /\ _is_valid_upc(matches[p])}
    IN  IF valid = {} THEN <<>> ELSE matches[Least(valid)]
\* ------------------------------------------------ the parsed page (soup)
\* An element has a tag, an id (a sequence of word tokens, <<>> for none), one
\* class ("" for none), attributes (a text per attribute, `has` the ones
\* present), its own text and its parent (an earlier position, 0 for the root).
AttrNames == {"itemprop", "property", "name", "data-testid", "content", "src",
              "data-src", "data-lazy-src", "data-upc"}

\* the tags whose elements have child elements in the pages of the model
ContainerTags == {"div"}

\* Tag.has_attr and Tag.get
has_attr(e, a) == a \in e.has
get(e, a) == e.attrs[a]

\* the positions of the ancestors of element k of the page s
RECURSIVE AncestorsIn(_, _)
AncestorsIn(s, k) ==
    IF s[k].parent = 0 THEN {} ELSE {s[k].parent} \cup AncestorsIn(s, s[k].parent)

Ancestors(k) == AncestorsIn(soup, k)

\* Tag.get_text(strip=...): the texts of the element and of its descendants
\* in document order, each one stripped first if strip is set
RECURSIVE TextFrom(_, _, _)
TextFrom(k, j, do_strip) ==
    IF j > Len(soup) THEN <<>>
    ELSE (IF j = k \/ k \in Ancestors(j)
          THEN (IF do_strip THEN strip(soup[j].text) ELSE soup[j].text)
          ELSE <<>>) \o TextFrom(k, j + 1, do_strip)

get_text(k, do_strip) == TextFrom(k, k, do_strip)

\* A CSS selector: every field that is set must hold of the element.
AnyElement ==
    [tag |-> "", id |-> <<>>, class |-> "", attr |-> "", val |-> <<>>,
     in_id |-> <<>>, in_class |-> "", has_text |-> <<>>, id_has |-> <<>>]

ByTag(tag) == [AnyElement EXCEPT !.tag = tag]                     \* h1
ByClass(tag, class) == [AnyElement EXCEPT !.tag = tag, !.class = class]  \* h1.c, .c
ById(tag, id) == [AnyElement EXCEPT !.tag = tag, !.id = id]       \* h1#i, #i
ByAttr(tag, attr, val) ==                                         \* [a="v"], [a]
    [AnyElement EXCEPT !.tag = tag, !.attr = attr, !.val = val]
Inside(in_id, in_class, tag) ==                                   \* .c img, #i img
    [AnyElement EXCEPT !.tag = tag, !.in_id = in_id, !.in_class = in_class]
Containing(tag, text) ==                                          \* span:contains("t")
    [AnyElement EXCEPT !.tag = tag, !.has_text = text]
IdContaining(tokens) == [AnyElement EXCEPT !.id_has = tokens]     \* [id*="t"]

\* whether the element at position k matches the selector
Matches(s, k) ==
    LET e == soup[k] IN
        /\ s.tag = "" \/ e.tag = s.tag
        /\ s.id = <<>> \/ e.id = s.id
        /\ s.class = "" \/ e.class = s.class
        /\ s.attr = "" \/ (has_attr(e, s.attr) /\ (s.val = <<>> \/ get(e, s.attr) = s.val))
        /\ (s.in_id = <<>> /\ s.in_class = "")
           \/ \E a \in Ancestors(k) : /\ s.in_id = <<>> \/ soup[a].id = s.in_id
                                      /\ s.in_class = "" \/ soup[a].class = s.in_class
        /\ s.has_text = <<>> \/ contains(get_text(k, FALSE), s.has_text)
        /\ s.id_has = <<>> \/ contains(e.id, s.id_has)

\* soup.select of a selector group: the positions that match one of them
select(group) == {k \in DOMAIN soup : \E s \in group : Matches(s, k)}

\* soup.select_one: the first match in document order, 0 for None
select_one(s) == IF select({s}) = {} THEN 0 ELSE Least(select({s}))

\* the members of a set of positions in document order
RECURSIVE InOrder(_)
InOrder(S) == IF S = {} THEN <<>> ELSE <<Least(S)>> \o InOrder(S \ {Least(S)})

\* the selector lists of the heuristic tier, in the order of the source
NameSelectors ==
    <<ByAttr("h1", "itemprop", <<"name">>), ByClass("h1", "product-title"),
      ById("h1", <<"product", "Title">>), ByClass("h1", "product-name"), ByTag("h1"),
      ByAttr("", "data-testid", <<"product-title">>), ByClass("", "product-title"),
      ById("", <<"product", "-", "title">>)>>

DescriptionSelectors ==
    <<ByAttr("", "itemprop", <<"description">>), ById("", <<"product", "Description">>),
      ByClass("", "product-description"), ByClass("", "description"),
      ByAttr("", "data-testid", <<"product-description">>),
      ByAttr("meta", "name", <<"description">>)>>

PriceSelectors ==
    <<ByAttr("", "itemprop", <<"price">>), ByClass("", "price"),
      ById("", <<"priceblock_ourprice">>), ById("", <<"priceblock_dealprice">>),
      ByClass("", "product-price"), ByAttr("", "data-testid", <<"product-price">>),
      ByClass("", "a-price-whole"), ByClass("span", "price")>>

ImageSelectors ==
    <<ByAttr("img", "itemprop", <<"image">>), Inside(<<>>, "product-image", "img"),
      ById("", <<"landingImage">>), Inside(<<"imgTagWrapperId">>, "", "img"),
      ByAttr("", "data-testid", <<"product-image">>),
      Inside(<<>>, "gallery-image", "img")>>

ProductContainers ==
    {ByClass("", "product"), ById("", <<"product">>), IdContaining(<<"product">>)}

UpcMetaSelectors ==
    <<ByAttr("meta", "property", <<"product:upc">>), ByAttr("meta", "itemprop", <<"gtin12">>),
      ByAttr("meta", "itemprop", <<"gtin13">>), ByAttr("meta", "itemprop", <<"gtin14">>),
      ByAttr("meta", "itemprop", <<"gtin">>), ByAttr("meta", "itemprop", <<"ean">>),
      ByAttr("meta", "itemprop", <<"isbn">>), ByAttr("meta", "name", <<"upc">>),
      ByAttr("meta", "name", <<"gtin">>)>>

UpcSelectors ==
    <<ByClass("", "upc"), ById("", <<"upc">>), ByAttr("", "data-upc", <<>>),
      ByClass("", "product-upc"), ByClass("", "product-code"),
      ByAttr("", "itemprop", <<"gtin12">>), ByAttr("", "itemprop", <<"gtin13">>),
      ByAttr("", "itemprop", <<"gtin14">>), Containing("span", <<"U", "P", "C">>),
      Containing("span", <<"G", "T", "I", "N">>), Containing("span", <<"E", "A", "N">>)>>

ProductSections ==
    {ByClass("", "product-details"), ByClass("", "product-info"),
     ById("", <<"product", "-", "details">>), IdContaining(<<"product">>)}
\* --------------------------------------------- the extraction functions
\* `if key in self.config: element = soup.select_one(self.config[key])`:
\* the first element the override selects, 0 if there is no override or no match
Override(key) == IF key \in DOMAIN config THEN select_one(config[key]) ELSE 0

\* the positions in a selector list whose selector matches some element
Hits(selectors) == {n \in DOMAIN selectors : select_one(selectors[n]) # 0}

\* the element of the first selector of the list that matches, 0 if none does
FirstHit(selectors) ==
    IF Hits(selectors) = {} THEN 0 ELSE select_one(selectors[Least(Hits(selectors))])

\* an _extract_name that ignores the override
_extract_name_generic ==
    IF FirstHit(NameSelectors) # 0
    THEN Returned(get_text(FirstHit(NameSelectors), TRUE))
    ELSE Returned(<<"Unknown Product">>)

\* ProductScraper._extract_name (soup.find('h1') of line 97 finds what the
\* selector h1 of the list found, so it only matters when no h1 exists)
_extract_name ==
    IF Override("name_selector") # 0
    THEN Returned(get_text(Override("name_selector"), TRUE))
    ELSE IF FirstHit(NameSelectors) # 0
    THEN Returned(get_text(FirstHit(NameSelectors), TRUE))
    ELSE IF select_one(ByTag("h1")) # 0
    THEN Returned(get_text(select_one(ByTag("h1")), TRUE))
    ELSE Returned(<<"Unknown Product">>)

\* ProductScraper._extract_description
_extract_description ==
    LET element == FirstHit(DescriptionSelectors) IN
        IF Override("description_selector") # 0
        THEN Returned(get_text(Override("description_selector"), TRUE))
        ELSE IF element = 0 THEN Returned(<<>>)
        ELSE IF soup[element].tag = "meta" THEN Returned(get(soup[element], "content"))
        ELSE Returned(get_text(element, TRUE))

\* the price the element at position k shows
PriceOf(k) == _parse_price(get_text(k, TRUE))

\* ProductScraper._extract_price: the override's element whatever it parses
\* to; else the first listed selector whose element parses to more than 0;
\* else float() of the content of the price meta tag (0 without the
\* attribute); else 0.0
_extract_price ==
    LET priced == {n \in Hits(PriceSelectors) :
                      Positive(PriceOf(select_one(PriceSelectors[n])))}
        meta_price == select_one(ByAttr("meta", "property", <<"product:price:amount">>))
    IN  IF Override("price_selector") # 0
        THEN Returned(PriceOf(Override("price_selector")))
        ELSE IF priced # {}
        THEN Returned(PriceOf(select_one(PriceSelectors[Least(priced)])))
        ELSE IF meta_price # 0
        THEN (IF has_attr(soup[meta_price], "content")
              THEN float(get(soup[meta_price], "content"))
              ELSE Returned(Zero))
        ELSE Returned(Zero)

\* ProductScraper._extract_currency
_extract_currency ==
    LET meta_currency ==
            select_one(ByAttr("meta", "property", <<"product:price:currency">>))
        price_element == select_one(ByAttr("", "itemprop", <<"price">>))
        text == get_text(price_element, FALSE)
        sign(c) == \E k \in DOMAIN text : text[k] = c
    IN  IF Override("currency_selector") # 0
        THEN Returned(get_text(Override("currency_selector"), TRUE))
        ELSE IF meta_currency # 0
        THEN Returned(IF has_attr(soup[meta_currency], "content")
                      THEN get(soup[meta_currency], "content") ELSE <<"U", "S", "D">>)
        ELSE IF price_element # 0 /\ sign("$") THEN Returned(<<"U", "S", "D">>)
        ELSE IF price_element # 0 /\ sign("€") THEN Returned(<<"E", "U", "R">>)
        ELSE IF price_element # 0 /\ sign("£") THEN Returned(<<"G", "B", "P">>)
        ELSE IF price_element # 0 /\ sign("¥") THEN Returned(<<"J", "P", "Y">>)
        ELSE Returned(<<"U", "S", "D">>)

\* `a or b or c` on attribute values: the first that is present and not empty
FirstOf(e, names) ==
    LET set == {n \in DOMAIN names : get(e, names[n]) # <<>>} IN
        IF set = {} THEN <<>> ELSE get(e, names[Least(set)])

HTTP == <<"http">>

\* lines 209-212: the references of the elements the override selects, kept
\* when they start with http
RECURSIVE OverrideImages(_)
OverrideImages(elements) ==
    IF elements = <<>> THEN <<>>
    ELSE LET img_url == FirstOf(soup[Head(elements)], <<"src", "data-src">>) IN
             (IF startswith(img_url, HTTP) THEN <<img_url>> ELSE <<>>)
                 \o OverrideImages(Tail(elements))

\* lines 228-238: one pass over the elements of one heuristic selector
RECURSIVE HeuristicImages(_, _)
HeuristicImages(image_urls, elements) ==
    IF elements = <<>> THEN image_urls
    ELSE LET raw == FirstOf(soup[Head(elements)], <<"src", "data-src", "data-lazy-src">>)
             img_url == IF startswith(raw, <<"/", "/">>) THEN <<"http", "s:">> \o raw ELSE raw
             keep == /\ raw # <<>>
                     /\ startswith(raw, <<"/", "/">>) \/ ~startswith(raw, <<"/">>)
                     /\ startswith(img_url, HTTP)
                     /\ \A n \in DOMAIN image_urls : image_urls[n] # img_url
         IN  HeuristicImages(IF keep THEN Append(image_urls, img_url) ELSE image_urls,
                             Tail(elements))

\* lines 226-238: the heuristic selectors from position n of the list on
RECURSIVE AllHeuristicImages(_, _)
AllHeuristicImages(image_urls, n) ==
    IF n > Len(ImageSelectors) THEN image_urls
    ELSE AllHeuristicImages(
             HeuristicImages(image_urls, InOrder(select({ImageSelectors[n]}))), n + 1)

\* lines 245-248: the images of one product container
RECURSIVE ContainerImages(_, _)
ContainerImages(image_urls, images) ==
    IF images = <<>> THEN image_urls
    ELSE LET img_url == FirstOf(soup[Head(images)], <<"src", "data-src">>)
             keep == /\ startswith(img_url, HTTP)
                     /\ \A n \in DOMAIN image_urls : image_urls[n] # img_url
         IN  ContainerImages(IF keep THEN Append(image_urls, img_url) ELSE image_urls,
                             Tail(images))

\* lines 242-248: the product containers in document order
RECURSIVE AllContainerImages(_, _)
AllContainerImages(image_urls, containers) ==
    IF containers = <<>> THEN image_urls
    ELSE AllContainerImages(
             ContainerImages(image_urls,
                 InOrder({k \in DOMAIN soup : /\ soup[k].tag = "img"
                                              /\ Head(containers) \in Ancestors(k)})),
             Tail(containers))

MaxImages == 5

\* ProductScraper._extract_image_urls: the override tier returns its list as
\* it is; the other tiers drop repeats and return at most MaxImages entries
_extract_image_urls ==
    LET configured ==
            IF "image_selector" \in DOMAIN config
            THEN OverrideImages(InOrder(select({config["image_selector"]})))
            ELSE <<>>
        heuristic == AllHeuristicImages(<<>>, 1)
        image_urls == IF heuristic # <<>> THEN heuristic
                      ELSE AllContainerImages(<<>>, InOrder(select(ProductContainers)))
    IN  IF configured # <<>> THEN Returned(configured)
        ELSE Returned(SubSeq(image_urls, 1, Min(MaxImages, Len(image_urls))))

\* lines 275-280: the content of the first listed meta tag that is valid
UpcFromMeta ==
    LET valid == {n \in Hits(UpcMetaSelectors) :
                     _is_valid_upc(get(soup[select_one(UpcMetaSelectors[n])], "content"))}
    IN  IF valid = {} THEN <<>>
        ELSE get(soup[select_one(UpcMetaSelectors[Least(valid)])], "content")

\* lines 298-310: what the element of one CSS selector yields
UpcFromElement(k) ==
    IF has_attr(soup[k], "data-upc") /\ _is_valid_upc(get(soup[k], "data-upc"))
    THEN get(soup[k], "data-upc")
    ELSE _extract_upc_from_text(get_text(k, TRUE))

\* lines 297-310: the first listed CSS selector whose element yields something
UpcFromSelectors ==
    LET found == {n \in Hits(UpcSelectors) :
                     UpcFromElement(select_one(UpcSelectors[n])) # <<>>}
    IN  IF found = {} THEN <<>>
        ELSE UpcFromElement(select_one(UpcSelectors[Least(found)]))

\* lines 313-318: the first product section whose text yields something
UpcFromSections ==
    LET found == {k \in select(ProductSections) :
                     _extract_upc_from_text(get_text(k, FALSE)) # <<>>}
    IN  IF found = {} THEN <<>>
        ELSE _extract_upc_from_text(get_text(Least(found), FALSE))

\* ProductScraper._extract_upc
_extract_upc ==
    LET upc == IF Override("upc_selector") # 0
               THEN get_text(Override("upc_selector"), TRUE) ELSE <<>>
    IN  IF _is_valid_upc(upc) THEN Returned(upc)
        ELSE IF UpcFromMeta # <<>> THEN Returned(UpcFromMeta)
        ELSE IF UpcFromSelectors # <<>> THEN Returned(UpcFromSelectors)
        ELSE Returned(UpcFromSections)
\* ----------------------------------------------- the pages and the texts
MaxElements == 2
MaxDigits == 15

NoAttrs == [a \in {} |-> <<>>]

Element(tag, id, class, given, text) ==
    [tag |-> tag, id |-> id, class |-> class, has |-> DOMAIN given,
     attrs |-> [a \in AttrNames |-> IF a \in DOMAIN given THEN given[a] ELSE <<>>],
     text |-> text]

\* a text of n digits
Run(n) == [k \in 1..n |-> <<"1", "2", "3", "4", "5", "6", "7", "8", "9", "0">>[((k - 1) % 10) + 1]]

\* the elements a page of the model is made of
ElementKinds ==
    {Element("h1", <<>>, "product-name", NoAttrs, <<" ", "A", " ">>),
     Element("h1", <<>>, "", "itemprop" :> <<"name">>, <<"B">>),
     Element("div", <<>>, "custom-price", NoAttrs, <<"$", "9", ".", "5", "0">>),
     Element("div", <<>>, "price", NoAttrs, <<"$", "1", "9">>),
     Element("span", <<>>, "price", NoAttrs, <<"-">>),
     Element("span", <<>>, "", "itemprop" :> <<"price">>, <<"€", "5">>),
     Element("meta", <<>>, "", ("property" :> <<"product:price:amount">>)
                                  @@ ("content" :> <<"-", "5">>), <<>>),
     Element("meta", <<>>, "", ("property" :> <<"product:price:amount">>)
                                  @@ ("content" :> <<"$", "5">>), <<>>),
     Element("img", <<>>, "custom-image",
             "src" :> <<"http", "s:", "/", "/", "a.jpg">>, <<>>),
     Element("img", <<>>, "", ("itemprop" :> <<"image">>)
                                 @@ ("src" :> <<"/", "/", "a.jpg">>), <<>>),
     Element("img", <<>>, "", "src" :> <<"http", ":", "/", "/", "b.jpg">>, <<>>),
     Element("div", <<"product">>, "", NoAttrs, <<>>),
     Element("span", <<>>, "custom-upc", NoAttrs, <<"U", "P", "C", ":", " ">> \o Run(12)),
     Element("meta", <<>>, "", ("itemprop" :> <<"gtin13">>)
                                  @@ ("content" :> (<<"0", "-">> \o Run(12))), <<>>),
     Element("span", <<>>, "upc", NoAttrs, <<"E", "A", "N">> \o Run(13)),
     Element("meta", <<>>, "", ("name" :> <<"description">>) @@ ("content" :> <<"D">>), <<>>),
     Element("h1", <<"product", "Title">>, "", NoAttrs, <<" ">>),
     Element("p", <<>>, "description", NoAttrs, <<>>)}

\* the elements of the page s that are still open after its last element:
\* the next element of the document is a child of one of them or of the root
Open(s) ==
    IF s = <<>> THEN {0}
    ELSE {0} \cup {j \in {Len(s)} \cup AncestorsIn(s, Len(s)) : s[j].tag \in ContainerTags}

Placed(e, parent) ==
    [tag |-> e.tag, id |-> e.id, class |-> e.class, has |-> e.has, attrs |-> e.attrs,
     text |-> e.text, parent |-> parent]

\* the pages of n elements, in document order
RECURSIVE SoupsOfLen(_)
SoupsOfLen(n) ==
    IF n = 0 THEN {<<>>}
    ELSE UNION {{Append(s, Placed(e, p)) : e \in ElementKinds, p \in Open(s)} :
                  s \in SoupsOfLen(n - 1)}

Soups == UNION {SoupsOfLen(n) : n \in 0..MaxElements}

\* the override of test_detection.py (lines 144-147), extended by an image
\* and an identifier selector, and the scraper without override
NoConfig == [key \in {} |-> AnyElement]

CustomConfig ==
    [name_selector |-> ByClass("", "product-name"),
     price_selector |-> ByClass("", "custom-price"),
     image_selector |-> ByClass("", "custom-image"),
     upc_selector |-> ByClass("", "custom-upc")]

Configs == {NoConfig, CustomConfig}

\* a number as it is written: the digits before and after the point
PriceNumbers ==
    [whole : {<<"5">>, <<"9", "9", "9">>, <<"1", "2", "9", "9">>, <<"1", "0", "0", "0", "0">>},
     frac : {<<>>, <<"5">>, <<"9", "9">>, <<"0", "0">>}]

\* the digits with a comma before every group of three
RECURSIVE Grouped(_)
Grouped(digits) ==
    IF Len(digits) <= 3 THEN digits
    ELSE Grouped(SubSeq(digits, 1, Len(digits) - 3)) \o <<",">>
             \o SubSeq(digits, Len(digits) - 2, Len(digits))

Written(number, commas) ==
    (IF commas THEN Grouped(number.whole) ELSE number.whole)
        \o (IF number.frac = <<>> THEN <<>> ELSE <<".">> \o number.frac)

\* the number that is written
Exact(number) == Decimal(FALSE, number.whole \o number.frac, Len(number.frac))

\* currency symbols and words without a digit, before and after the number
Leading ==
    {<<>>, <<"$">>, <<"€">>, <<"£">>, <<"U", "S", "D", " ">>,
     <<"P", "r", "i", "c", "e", ":", " ", "$">>, <<"R", "s", ".", " ">>}

Trailing == {<<>>, <<" ", "U", "S", "D">>, <<" ", "e", "a", "c", "h">>}

EuroText == <<"€", "1", ".", "2", "9", "9", ",", "9", "9">>

\* the texts _parse_price is applied to (test_detection.py, lines 172-181)
PriceTexts ==
    {l \o Written(n, c) \o t : l \in Leading, t \in Trailing, n \in PriceNumbers,
                               c \in BOOLEAN}
        \cup {EuroText,
              <<"S", "a", "l", "e", ":", " ", "$", "5", ".", "9", "9", " ", "(", "$", "7", ")">>}

\* the candidates of an identifier: n digits, plain, hyphenated, labelled,
\* followed or preceded by a letter
UpcCandidates ==
    UNION {{Run(n),
            <<"0", "-">> \o Run(n),
            <<"U", "P", "C", ":", " ">> \o Run(n),
            <<"I", "S", "B", "N", " ">> \o Run(n),
            Run(n) \o <<"X">>,
            <<"a">> \o Run(n) \o <<" ", "-">>} : n \in 0..MaxDigits}
\* ------------------------------------- the scraper applied to one page
\* one call on a scraper that has not been used: the function, its text
\* argument if it has one, what came back (the functions keep no state, so
\* a second call on the same page shows nothing new)
Call(function, text, outcome) ==
    /\ fn = "none"
    /\ fn' = function /\ arg' = text /\ result' = outcome
    /\ UNCHANGED <<dbvars, jobvars, histvars, ledgervars, ratevars, lockvars, concvars,
                   config, soup, site_table>>

ExtractName == program = "scraper" /\ Call("_extract_name", <<>>, _extract_name)
ExtractDescription == program = "scraper" /\ Call("_extract_description", <<>>, _extract_description)
ExtractPrice == program = "scraper" /\ Call("_extract_price", <<>>, _extract_price)
ExtractCurrency == program = "scraper" /\ Call("_extract_currency", <<>>, _extract_currency)
ExtractImageUrls == program = "scraper" /\ Call("_extract_image_urls", <<>>, _extract_image_urls)
ExtractUpc == program = "scraper" /\ Call("_extract_upc", <<>>, _extract_upc)

\* the functions of a text read neither the page nor the override; they are
\* applied on a scraper that has neither (test_detection.py, line 170)
ParsePrice(price_text) ==
    /\ program = "scraper" /\ soup = <<>> /\ config = NoConfig
    /\ Call("_parse_price", price_text, Returned(_parse_price(price_text)))

IsValidUpc(upc) ==
    /\ program = "scraper" /\ soup = <<>> /\ config = NoConfig
    /\ Call("_is_valid_upc", upc, Returned(_is_valid_upc(upc)))

ExtractUpcFromText(text) ==
    /\ program = "scraper" /\ soup = <<>> /\ config = NoConfig
    /\ Call("_extract_upc_from_text", text, Returned(_extract_upc_from_text(text)))

InitExtract ==
    /\ program = "scraper"
    /\ products = [u \in URLS |-> NoProduct] /\ price_history = <<>> /\ now = 0
    /\ urls = <<>> /\ job = JobRecord(<<>>) /\ pc = "main"
    /\ i = 0 /\ success_count = 0 /\ failed_count = 0 /\ errors = <<>>
    /\ stats = InitialStats /\ config_source = "missing" /\ artifact = FALSE
    /\ delays = 0 /\ calls = 0
    /\ fetches = 0 /\ fetch_failed = {} /\ skips = 0
    /\ faults = 0 /\ fault_at = 0 /\ response = "none" /\ cancel_accepted = FALSE
    /\ ops = [u \in URLS |-> <<>>] /\ shown = [u \in URLS |-> <<>>]
    /\ rate_limit = 0 /\ last_request_time = 0 /\ current_time = 0
    /\ sleep_until = 0 /\ rl_pc = "idle" /\ returns = <<>>
    /\ LockIdle /\ ConcIdle
    /\ config \in Configs /\ soup \in Soups /\ site_table = <<>>
    /\ fn = "none" /\ arg = <<>> /\ result = <<>>

NextExtract ==
    \/ ExtractName \/ ExtractDescription \/ ExtractPrice \/ ExtractCurrency
    \/ ExtractImageUrls \/ ExtractUpc
    \/ \E price_text \in PriceTexts : ParsePrice(price_text)
    \/ \E upc \in UpcCandidates : IsValidUpc(upc)
    \/ \E text \in UpcCandidates : ExtractUpcFromText(text)

\* the extraction functions applied to the pages and the texts of the model
SpecExtract == InitExtract /\ [][NextExtract]_vars
\* ------------------------------------------------ claims on the extraction
ExtractFns ==
    {"_extract_name", "_extract_description", "_extract_price", "_extract_currency",
     "_extract_image_urls", "_extract_upc"}

\* C14: field extraction never raises: each of the six _extract_ functions
\* returns a value for every page and every override, malformed text included.
C14_ExtractionNeverRaises ==
    fn \in ExtractFns => ~result.raised

\* the elements of the page the selector matches
Matched(s) == {k \in DOMAIN soup : Matches(s, k)}

\* C15: override precedence for name and price: when the override selector
\* matches an element, the value comes from the first element it matches in
\* document order (the text of that element, for the price parsed), whatever
\* the heuristic selectors match.
C15_OverridePrecedence ==
    /\ (fn = "_extract_name" /\ "name_selector" \in DOMAIN config
            /\ Matched(config["name_selector"]) # {})
       => LET first == CHOOSE k \in Matched(config["name_selector"]) :
                           \A j \in Matched(config["name_selector"]) : k <= j
          IN  ~result.raised /\ result.value = get_text(first, TRUE)
    /\ (fn = "_extract_price" /\ "price_selector" \in DOMAIN config
            /\ Matched(config["price_selector"]) # {})
       => LET first == CHOOSE k \in Matched(config["price_selector"]) :
                           \A j \in Matched(config["price_selector"]) : k <= j
          IN  ~result.raised /\ result.value = _parse_price(get_text(first, TRUE))

\* an override element after a heuristic element with another text
C15_Witness ==
    /\ fn = "_extract_name" /\ "name_selector" \in DOMAIN config
    /\ Len(soup) = 2
    /\ Matches(NameSelectors[1], 1) /\ ~Matches(config["name_selector"], 1)
    /\ Matches(config["name_selector"], 2)
    /\ soup[1].text = <<"B">> /\ result.value = <<"A">>

\* C16: the list _extract_image_urls returns has no value twice and at most
\* five entries, whichever tier produced it.
C16_ImagesDistinctCapped ==
    (fn = "_extract_image_urls" /\ ~result.raised)
    => /\ Len(result.value) <= MaxImages
       /\ \A m, n \in DOMAIN result.value : m # n => result.value[m] # result.value[n]

DigitCount(text) == Cardinality({k \in DOMAIN text : text[k] \in Digits})

\* C17: _is_valid_upc accepts a candidate only if it has 10, 12, 13 or 14
\* digits once the other characters are removed; it rejects a candidate of
\* 11 digits and accepts a text of exactly 12 digits.
C17_IdentifierValidation ==
    fn = "_is_valid_upc" =>
        /\ result.value => DigitCount(arg) \in {10, 12, 13, 14}
        /\ DigitCount(arg) = 11 => ~result.value
        /\ (Len(arg) = 12 /\ DigitCount(arg) = 12) => result.value

\* a candidate of 12 digits and other characters was accepted
C17_Witness ==
    fn = "_is_valid_upc" /\ DigitCount(arg) = 12 /\ Len(arg) > 12 /\ result.value

\* C18: _extract_upc returns the empty text or a text made only of digits, of
\* length 10, 12, 13 or 14, for every tier of the cascade.
C18_IdentifierDigitsOnly ==
    (fn = "_extract_upc" /\ ~result.raised)
    => \/ result.value = <<>>
       \/ /\ \A k \in DOMAIN result.value : result.value[k] \in Digits
          /\ Len(result.value) \in {10, 12, 13, 14}

\* C19: _parse_price gives exactly the number written in a text that has one
\* number with a point as decimal separator, thousands commas or not, between
\* currency symbols or words without digits; for the text with a decimal
\* comma it gives a value other than 1299.99.
C19_ParseExact ==
    fn = "_parse_price" =>
        /\ \A l \in Leading, t \in Trailing, n \in PriceNumbers, c \in BOOLEAN :
              arg = l \o Written(n, c) \o t => result.value = Exact(n)
        /\ arg = EuroText => result.value # Decimal(FALSE, <<"1", "2", "9", "9", "9", "9">>, 2)

\* C20: the price _extract_price returns is never negative, whichever tier
\* produced it.
C20_PriceNonNegative ==
    (fn = "_extract_price" /\ ~result.raised) => NonNegative(result.value)

\* -------------------------------------------- claims on the pacing of a run
\* the positions of a run inside the processing of item i
InItem == {"scrape", "fetching", "save_skip", "save_counts", "inner_except", "delay",
           "bulk_scrape", "bulk_fetching", "bulk_delay"}

\* the positions of a run after its loop ended with the list exhausted
AfterLoop == {"export", "mark_completed", "bulk_done"}

\* C21: inter-item pacing: a run over n targets sleeps exactly n-1 times,
\* once after each item except the last: while item i is processed the run
\* has slept i-1 times, between two items i times, after the loop n-1 times;
\* and every sleep starts after the counters of the item were published
\* (the record shows the local counts and the item as current) and before
\* the next item is taken, whether the item was fetched, skipped or failed.
C21_InterItemPacing ==
    /\ [](/\ pc \in InItem => delays = i - 1
          /\ pc \in {"loop", "bulk_loop"}
                => delays = (IF i < Len(urls) THEN i ELSE Len(urls) - 1)
          /\ pc \in AfterLoop => delays = Len(urls) - 1
          /\ (pc = "done" /\ job.status = "completed") => delays = Len(urls) - 1)
    /\ [][delays' # delays =>
            /\ delays' = delays + 1 /\ i' = i
            /\ pc = "delay" => /\ pc' = "loop"
                               /\ job.success = success_count
                               /\ job.failed = failed_count
                               /\ job.current = i
            /\ pc = "bulk_delay" => pc' = "bulk_loop" /\ stats.success + stats.failed = i
            /\ pc \in {"delay", "bulk_delay"}
         ]_vars

\* a job of two targets, one skipped and one whose fetch failed, has ended
\* after one sleep
C21_Witness ==
    /\ program = "web_app" /\ pc = "done" /\ job.status = "completed"
    /\ Len(urls) = 2 /\ skips = 1 /\ Cardinality(fetch_failed) = 1
    /\ delays = 1

\* --------------------------- src/src/tracker.py: the override of a target
MaxSites == 2
MaxKeyLen == 2
MaxUrlLen == 3

\* the texts of n characters that site keys and target addresses are made of
RECURSIVE TextsOfLen(_)
TextsOfLen(n) ==
    IF n = 0 THEN {<<>>}
    ELSE {Append(s, c) : s \in TextsOfLen(n - 1), c \in {"a", "b"}}

SiteNames == UNION {TextsOfLen(n) : n \in 1..MaxKeyLen}
TargetUrls == UNION {TextsOfLen(n) : n \in 1..MaxUrlLen}

\* the override stored under the n-th key of the table: each one different
SiteOverride(n) == [name_selector |-> ById("h1", Run(n))]

\* the contents json.load can give site_configs: the keys of an object are
\* distinct, and a dict iterates in the order of the file
RECURSIVE TablesOfLen(_)
TablesOfLen(n) ==
    IF n = 0 THEN {<<>>}
    ELSE {Append(t, [site_name |-> name, config |-> SiteOverride(n)]) :
            t \in TablesOfLen(n - 1), name \in SiteNames}

SiteTables ==
    {t \in UNION {TablesOfLen(n) : n \in 0..MaxSites} :
        \A m, n \in DOMAIN t : m # n => t[m].site_name # t[n].site_name}

\* a resolver that lets the last matching key win
_get_config_for_url_last(url) ==
    LET hits == {n \in DOMAIN site_table : contains(url, site_table[n].site_name)} IN
        IF hits = {} THEN NoConfig
        ELSE site_table[CHOOSE n \in hits : \A m \in hits : m <= n].config

\* PriceTracker._get_config_for_url: the config of the first site_name, in
\* the order of site_configs.items(), for which `site_name in url`
_get_config_for_url(url) ==
    LET hits == {n \in DOMAIN site_table : contains(url, site_table[n].site_name)} IN
        IF hits = {} THEN NoConfig ELSE site_table[Least(hits)].config

\* track_product, line 44: the override of the target is looked up
GetConfigForUrl(url) ==
    /\ program = "tracker"
    /\ Call("_get_config_for_url", url, Returned(_get_config_for_url(url)))

InitConfig ==
    /\ program = "tracker"
    /\ products = [u \in URLS |-> NoProduct] /\ price_history = <<>> /\ now = 0
    /\ urls = <<>> /\ job = JobRecord(<<>>) /\ pc = "main"
    /\ i = 0 /\ success_count = 0 /\ failed_count = 0 /\ errors = <<>>
    /\ stats = InitialStats /\ config_source = "valid" /\ artifact = FALSE
    /\ delays = 0 /\ calls = 0
    /\ fetches = 0 /\ fetch_failed = {} /\ skips = 0
    /\ faults = 0 /\ fault_at = 0 /\ response = "none" /\ cancel_accepted = FALSE
    /\ ops = [u \in URLS |-> <<>>] /\ shown = [u \in URLS |-> <<>>]
    /\ rate_limit = 0 /\ last_request_time = 0 /\ current_time = 0
    /\ sleep_until = 0 /\ rl_pc = "idle" /\ returns = <<>>
    /\ LockIdle /\ ConcIdle
    /\ config = NoConfig /\ soup = <<>> /\ fn = "none" /\ arg = <<>> /\ result = <<>>
    /\ site_table \in SiteTables

NextConfig == \E url \in TargetUrls : GetConfigForUrl(url)

\* the override lookup on the tables and the addresses of the model
SpecConfig == InitConfig /\ [][NextConfig]_vars

\* sub occurs in s at some position
IsSubstring(sub, s) ==
    \E a \in 0..(Len(s) - Len(sub)) : \A k \in 1..Len(sub) : s[a + k] = sub[k]

\* C22: _get_config_for_url returns the override of the first site key, in
\* the iteration order of the table, that is a substring of the target
\* address, and the empty override when no key is; the table is left as it was.
C22_ConfigResolver ==
    [][fn' = "_get_config_for_url" =>
        /\ site_table' = site_table
        /\ ~result'.raised
        /\ \/ /\ \A n \in DOMAIN site_table : ~IsSubstring(site_table[n].site_name, arg')
              /\ DOMAIN result'.value = {}
           \/ \E n \in DOMAIN site_table :
                 /\ IsSubstring(site_table[n].site_name, arg')
                 /\ \A m \in 1..(n - 1) : ~IsSubstring(site_table[m].site_name, arg')
                 /\ result'.value = site_table[n].config
      ]_vars

\* two keys of the table occur in the address, the second one earlier in the
\* address than the first, and the override of the first key came back
C22_Witness ==
    /\ fn = "_get_config_for_url" /\ Len(site_table) = 2
    /\ site_table[1].site_name = <<"b">> /\ site_table[2].site_name = <<"a", "b">>
    /\ arg = <<"a", "b">>
    /\ result.value = site_table[1].config /\ result.value # site_table[2].config

\* ------------------------------------- claims on the heuristic selectors
\* what a heuristic selector that matched the element at position k yields
\* for the description: the content of a meta tag, the text of anything else
DescriptionOf(k) ==
    IF soup[k].tag = "meta" THEN get(soup[k], "content") ELSE get_text(k, TRUE)

\* the selectors of the list whose first match yields a non-empty value
NameYields == {n \in Hits(NameSelectors) : get_text(select_one(NameSelectors[n]), TRUE) # <<>>}
DescriptionYields ==
    {n \in Hits(DescriptionSelectors) : DescriptionOf(select_one(DescriptionSelectors[n])) # <<>>}

\* C23: heuristic tier of the name and of the description: when no override
\* applies, the value is the one of the first heuristic selector whose match
\* yields a non-empty value; a selector that matches an element with empty
\* text does not win over a later selector.
C23_FirstNonEmptyWins ==
    /\ (fn = "_extract_name" /\ Override("name_selector") = 0 /\ NameYields # {})
       => /\ ~result.raised
          /\ result.value = get_text(select_one(NameSelectors[Least(NameYields)]), TRUE)
    /\ (fn = "_extract_description" /\ Override("description_selector") = 0
            /\ DescriptionYields # {})
       => /\ ~result.raised
          /\ result.value
                = DescriptionOf(select_one(DescriptionSelectors[Least(DescriptionYields)]))

\* ------------------- two workers on one store file, statement by statement
\* what a worker runs: one item of a job of the web front end (scrape_job,
\* lines 116-141) or one add/update command of main.py (track_product)
Entries == {"scrape_job", "main"}

\* a worker before its first statement
NewWorker(entry, url) ==
    [entry |-> entry, url |-> url,
     pc |-> IF entry = "scrape_job" THEN "lookup" ELSE "track",
     existing_product |-> NoProduct, old_product |-> NoProduct, price |-> 0,
     outcome |-> "none"]

\* worker w moves on; the store is left as it is
Local(w, next) ==
    /\ workers' = [workers EXCEPT ![w] = next]
    /\ UNCHANGED <<dbvars, jobvars, histvars, ledgervars, ratevars, extractvars, lockvars,
                   creator>>

\* scrape_job, lines 117-122: a target found in the store is counted as a
\* success and not fetched
JobLookup(w) ==
    /\ program = "workers" /\ workers[w].pc = "lookup"
    /\ IF get_product_by_url(workers[w].url).id # 0
       THEN Local(w, [workers[w] EXCEPT !.pc = "done", !.outcome = "skipped"])
       ELSE Local(w, [workers[w] EXCEPT !.pc = "track"])

\* track_product, line 41: the row of the target is read before the fetch
TrackLookup(w) ==
    /\ program = "workers" /\ workers[w].pc = "track"
    /\ Local(w, [workers[w] EXCEPT !.pc = "fetching",
                                  !.existing_product = get_product_by_url(workers[w].url)])

\* track_product, lines 53-57: the fetch gave nothing
ConcFetchFails(w) ==
    /\ workers[w].pc = "fetching"
    /\ Local(w, [workers[w] EXCEPT !.pc = "done", !.outcome = "failed"])

\* track_product, lines 53 and 60-65: the fetch gave a product; the row read
\* before the fetch decides between update_product and add_product
ConcFetchOk(w, price) ==
    /\ workers[w].pc = "fetching"
    /\ Local(w, [workers[w] EXCEPT
                    !.price = price,
                    !.pc = IF workers[w].existing_product.id # 0 THEN "update_read"
                                                                 ELSE "add_insert"])

\* add_product, lines 76-85: INSERT and commit; url is UNIQUE, so the INSERT
\* raises when the row exists by now
AddInsert(w) ==
    /\ workers[w].pc = "add_insert"
    /\ LET url == workers[w].url IN
       IF get_product_by_url(url).id # 0
       THEN Local(w, [workers[w] EXCEPT !.pc = "done", !.outcome = "error"])
       ELSE /\ products' = [products EXCEPT
                               ![url] = [id |-> lastrowid, current_price |-> workers[w].price]]
            /\ creator' = [creator EXCEPT ![url] = w]
            /\ workers' = [workers EXCEPT ![w].pc = "add_history"]
            /\ UNCHANGED <<price_history, now, jobvars, histvars, ledgervars, ratevars,
                           extractvars, lockvars>>

\* add_product, line 88: the initial observation
AddHistory(w) ==
    /\ workers[w].pc = "add_history"
    /\ price_history' = add_price_history(price_history,
                            get_product_by_url(workers[w].url).id, workers[w].price)
    /\ workers' = [workers EXCEPT ![w].pc = "done", ![w].outcome = "added"]
    /\ UNCHANGED <<products, now, jobvars, histvars, ledgervars, ratevars, extractvars,
                   lockvars, creator>>

\* update_product, line 98: read the old row
UpdateRead(w) ==
    /\ workers[w].pc = "update_read"
    /\ Local(w, [workers[w] EXCEPT !.pc = "update_write",
                                  !.old_product = get_product_by_url(workers[w].url)])

\* update_product, lines 100-108: UPDATE ... WHERE url = ? and commit
UpdateWrite(w) ==
    /\ workers[w].pc = "update_write"
    /\ products' = [products EXCEPT ![workers[w].url].current_price = workers[w].price]
    /\ workers' = [workers EXCEPT ![w].pc = "update_history"]
    /\ UNCHANGED <<price_history, now, jobvars, histvars, ledgervars, ratevars, extractvars,
                   lockvars, creator>>

\* update_product, lines 111-112: append if the price differs from the one read
UpdateHistory(w) ==
    /\ workers[w].pc = "update_history"
    /\ price_history' = IF price_changed(workers[w].old_product, workers[w].price)
                        THEN add_price_history(price_history, workers[w].old_product.id,
                                               workers[w].price)
                        ELSE price_history
    /\ workers' = [workers EXCEPT ![w].pc = "done", ![w].outcome = "updated"]
    /\ UNCHANGED <<products, now, jobvars, histvars, ledgervars, ratevars, extractvars,
                   lockvars, creator>>

InitConc ==
    /\ program = "workers"
    /\ \E known \in SUBSET URLS : \E s \in InitialStore(known) :
          products = s.products /\ price_history = s.price_history
    /\ now = 0
    /\ urls = <<>> /\ job = JobRecord(<<>>) /\ pc = "main"
    /\ i = 0 /\ success_count = 0 /\ failed_count = 0 /\ errors = <<>>
    /\ stats = InitialStats /\ config_source = "missing" /\ artifact = FALSE
    /\ delays = 0 /\ calls = 0
    /\ fetches = 0 /\ fetch_failed = {} /\ skips = 0
    /\ faults = 0 /\ fault_at = 0 /\ response = "none" /\ cancel_accepted = FALSE
    /\ ops = [u \in URLS |-> <<>>] /\ shown = [u \in URLS |-> <<>>]
    /\ rate_limit = 0 /\ last_request_time = 0 /\ current_time = 0
    /\ sleep_until = 0 /\ rl_pc = "idle" /\ returns = <<>>
    /\ ExtractIdle /\ LockIdle
    /\ workers \in [Workers -> {NewWorker(entry, url) : entry \in Entries, url \in URLS}]
    /\ creator = [u \in URLS |-> 0]

NextConc ==
    \E w \in Workers :
        \/ JobLookup(w) \/ TrackLookup(w) \/ ConcFetchFails(w)
        \/ (\E price \in Prices : ConcFetchOk(w, price))
        \/ AddInsert(w) \/ AddHistory(w)
        \/ UpdateRead(w) \/ UpdateWrite(w) \/ UpdateHistory(w)

\* the workers interleaved statement by statement
SpecConc == InitConc /\ [][NextConc]_vars

\* worker w is inside update_product
Updating(w) == workers[w].pc \in {"update_read", "update_write", "update_history"}

\* the row of the url was inserted by a job other than w
CreatedByOtherJob(w) ==
    LET c == creator[workers[w].url] IN
        c \notin {0, w} /\ workers[c].entry = "scrape_job"

\* C24: concurrently running jobs whose lists share a URL: no job calls
\* update_product on an entity another job has created, and no job ends the
\* target as a failure with an error because the entity was created by
\* another job in the meantime.
C24_NoConcurrentReextract ==
    program = "workers" =>
        \A w \in Workers :
            (workers[w].entry = "scrape_job" /\ CreatedByOtherJob(w))
            => /\ ~Updating(w)
               /\ workers[w].outcome # "updated"
               /\ workers[w].outcome # "error"

\* C25: under every interleaving of workers that update the same entity
\* through their own connections, the ledger of the entity never holds two
\* consecutive observations with the same price.
C25_NoRepeatedObservation ==
    program = "workers" =>
        \A url \in URLS :
            Known(url) => \A k \in 2..Len(LedgerPrices(url)) :
                              LedgerPrices(url)[k] # LedgerPrices(url)[k - 1]

\* worker w is inside add_product or update_product on the url
Writing(w, url) ==
    /\ workers[w].url = url
    /\ workers[w].pc \in {"add_insert", "add_history", "update_read", "update_write",
                          "update_history"}

\* C28: whenever no add_product or update_product is under way on an
\* entity, its ledger is non-empty and its current price is the price of the
\* most recent observation of the ledger.
C28_CurrentIsLatest ==
    program = "workers" =>
        \A url \in URLS :
            (Known(url) /\ \A w \in Workers : ~Writing(w, url))
            => /\ LedgerPrices(url) # <<>>
               /\ products[url].current_price = LedgerPrices(url)[Len(LedgerPrices(url))]

\* ------------------------------------------------- claims on termination
\* the worker thread is scheduled fairly: a step of scrape_job (or of the
\* bulk runner) that can be taken is taken, and a fetch in flight returns
SpecLive == Init /\ [][Next]_vars /\ WF_vars(WorkerStep) /\ WF_vars(BulkStep)

\* C26: every submitted job eventually reaches a terminal status (completed,
\* failed or cancelled) when the worker is scheduled fairly and each fetch
\* returns; no raise leaves the job in status running for ever.
C26_EventuallyTerminal ==
    program = "web_app" => <>(job.status \in Terminal)

\* --------------------------------------------- claims on the failure list
\* C27: in every state of the job record an observer can read, the failure
\* list has as many entries as the failure count says, while the job runs
\* and after it has ended.
C27_FailureListMatchesCount ==
    program = "web_app" => Len(job.errors) = job.failed

\* ---------------------------------------------- claims on a failed fetch
\* C29: a target whose fetch or extraction fails leaves the entity store and
\* the ledger as they were: no entity is created or modified and no
\* observation is appended, whether or not the url was already tracked.
C29_FailedFetchFrame ==
    [][fetch_failed' # fetch_failed
        => /\ products' = products
           /\ price_history' = price_history
           /\ ops' = ops
      ]_vars

\* the fetch failed for a url that was tracked, and for a url that was not
\* tracked and still is not
C29_Witness ==
    /\ program = "main"
    /\ \E url \in URLS :
          /\ [url |-> url, tracked |-> TRUE] \in fetch_failed
          /\ Len(ops[url]) = 1 /\ Len(LedgerPrices(url)) = 1
    /\ \E url \in URLS :
          /\ [url |-> url, tracked |-> FALSE] \in fetch_failed
          /\ ~Known(url)

\* ------------------------- bulk_scraper.py: scrape_bulk called repeatedly
MaxRuns == 2

\* scrape_bulk is called again on the same BulkScraper with another list:
\* the loop starts over, self.stats is the dictionary made by __init__
BulkCall(targets) ==
    /\ program = "bulk_scraper" /\ pc = "bulk_done" /\ calls < MaxRuns
    /\ urls' = targets
    /\ i' = 0 /\ pc' = "bulk_start"
    /\ delays' = 0 /\ fetch_failed' = {} /\ fault_at' = 0
    /\ UNCHANGED <<clivars, dbvars, program, job, success_count, failed_count, errors,
                   stats, config_source, artifact, calls, fetches, skips, faults, response,
                   cancel_accepted>>

InitBulk == Init /\ program = "bulk_scraper"

NextBulk == BulkStep \/ (\E targets \in TargetLists : BulkCall(targets))

\* one BulkScraper and the scrape_bulk calls made on it
SpecBulk == InitBulk /\ [][NextBulk]_vars

\* C30: after each call of scrape_bulk has returned, success + failed equals
\* total and the error list has one entry per failure, however many calls
\* were made on the same BulkScraper.
C30_BulkStatsConsistent ==
    (program = "bulk_scraper" /\ pc = "bulk_done")
    => /\ stats.success + stats.failed = stats.total
       /\ Len(stats.errors) = stats.failed

====
